---- MODULE Spec2Model ----
(***************************************************************************)
(* RW operation log construction of the zkEVM bus-mapping layer and the    *)
(* checks the circuits make on it.                                         *)
(*                                                                         *)
(* The builder folds a trace into ExecSteps; every state access goes       *)
(* through push_op, which stamps it with the next RW counter and records   *)
(* an OperationRef in the step's bus_mapping_instance.  The EVM circuit    *)
(* side (constraint_builder.rs) is modelled by the lookups a gadget        *)
(* demands of the RW table, the witness side (witness/rw.rs) by the        *)
(* functions that sort and audit the rows.                                 *)
(***************************************************************************)
EXTENDS Integers, Sequences, FiniteSets, TLC

VARIABLES rwc, container, steps, calls, frame_state, call_stack,
          reversion_groups, sdb, committed, tx_id, phase, last_ref,
          copy_events, padded, geth_trace, witness

vars == <<rwc, container, steps, calls, frame_state, call_stack,
          reversion_groups, sdb, committed, tx_id, phase, last_ref,
          copy_events, padded,
          geth_trace, witness>>

(***************************************************************************)
(* Bounds of the model.                                                    *)
(***************************************************************************)
MaxSteps == 4
MaxTxs == 2
MaxDepth == 2
MaxStack == 2
MaxVal == 1
MaxPushes == 3
MaxCopyLen == 2
MaxCopies == 2
MaxTrace == 3
MaxHeight == 2

(***************************************************************************)
(* Program constants.                                                      *)
(***************************************************************************)
STACK_CAPACITY == 1024
N_BYTES_WORD == 32
\* The largest word of the gadgets' part of the model, where a word is one
\* byte wide.
WordMax == 255

\* A boolean as a field element.
Bit(b) == IF b THEN 1 ELSE 0

Targets == {"Stack", "Memory", "Storage", "Account", "CallContext", "TxLog"}
Keys == {0}
Vals == 0..MaxVal

\* Rw::tag as u64: the discriminant the rows are sorted by.
TagOrd(t) ==
    CASE t = "Start" -> 1
      [] t = "Memory" -> 2
      [] t = "Stack" -> 3
      [] t = "Storage" -> 4
      [] t = "Account" -> 5
      [] t = "CallContext" -> 6
      [] t = "TxLog" -> 7
      [] t = "Padding" -> 8

\* CallContextFieldTag as u64.
FieldOrd(f) ==
    CASE f = "None" -> 0
      [] f = "RwCounterEndOfReversion" -> 1
      [] f = "CallerId" -> 2
      [] f = "CallerAddress" -> 3
      [] f = "ReturnDataOffset" -> 4
      [] f = "ReturnDataLength" -> 5
      [] f = "IsSuccess" -> 6
      [] f = "IsPersistent" -> 7
      [] f = "LastCalleeId" -> 8
      [] f = "IsRoot" -> 9
      [] f = "IsCreate" -> 10
      [] f = "CalleeAddress" -> 11
      [] f = "Balance" -> 12
      [] f = "IsStatic" -> 13

(***************************************************************************)
(* Operations.  One record shape for every target; the fields a target     *)
(* does not have hold the defaults that Rw::id/address/field_tag/          *)
(* storage_key return for it (unwrap_or_default).                          *)
(***************************************************************************)
CallContextOp(call_id, field, value) ==
    [rwc |-> 0, rw |-> "READ", target |-> "CallContext", id |-> call_id,
     address |-> 0, field |-> field, key |-> 0, value |-> value,
     value_prev |-> 0, committed_value |-> 0, reversible |-> FALSE]

StackOp(call_id, address, value) ==
    [rwc |-> 0, rw |-> "READ", target |-> "Stack", id |-> call_id,
     address |-> address, field |-> "None", key |-> 0, value |-> value,
     value_prev |-> 0, committed_value |-> 0, reversible |-> FALSE]

MemoryOp(call_id, address, byte) ==
    [rwc |-> 0, rw |-> "READ", target |-> "Memory", id |-> call_id,
     address |-> address, field |-> "None", key |-> 0, value |-> byte,
     value_prev |-> 0, committed_value |-> 0, reversible |-> FALSE]

StorageOp(address, key, value, value_prev, txid, committed_value) ==
    [rwc |-> 0, rw |-> "READ", target |-> "Storage", id |-> txid,
     address |-> address, field |-> "None", key |-> key, value |-> value,
     value_prev |-> value_prev, committed_value |-> committed_value,
     reversible |-> FALSE]

\* A field of an account: address is the account's address.
AccountOp(address, field, value, value_prev) ==
    [rwc |-> 0, rw |-> "READ", target |-> "Account", id |-> 0,
     address |-> address, field |-> field, key |-> 0, value |-> value,
     value_prev |-> value_prev, committed_value |-> 0, reversible |-> FALSE]

\* A byte of a log's data: id is the tx id, address the byte index.
TxLogOp(txid, log_id, index, byte) ==
    [rwc |-> 0, rw |-> "WRITE", target |-> "TxLog", id |-> txid,
     address |-> index, field |-> "None", key |-> log_id, value |-> byte,
     value_prev |-> 0, committed_value |-> 0, reversible |-> FALSE]

\* No padded table has been built yet.
NoPadding ==
    [called |-> FALSE, ok |-> TRUE, target_len |-> 0, input |-> <<>>,
     rows |-> <<>>, padding_length |-> 0]

(***************************************************************************)
(* ExecStep::new: the step record a handler starts from.                   *)
(***************************************************************************)
ExecStep_new(op, stack_size, call_ctx, cur_rwc, reversible_write_counter) ==
    [exec_state |-> op,
     stack_size |-> stack_size,
     memory_size |-> Len(call_ctx.memory),
     call_index |-> call_ctx.index,
     rwc |-> cur_rwc,
     reversible_write_counter |-> reversible_write_counter,
     bus_mapping_instance |-> <<>>,
     error |-> "None"]

\* The state a handler threads through its push_* calls.
Builder(step) ==
    [rwc |-> rwc, container |-> container, step |-> step,
     ref |-> last_ref, ctx |-> call_stack[Len(call_stack)],
     calls |-> calls, groups |-> reversion_groups, sdb |-> sdb]

new_step(op) ==
    LET ctx == call_stack[Len(call_stack)]
    IN  ExecStep_new(op, Len(ctx.stack), ctx, rwc, ctx.reversible_write_counter)

\* push_op that skips a counter value on every access.
push_op_skip(b, rw, op) ==
    LET t == op.target
        stamped == [op EXCEPT !.rwc = b.rwc, !.rw = rw]
        ref == <<t, Len(b.container[t]) + 1>>
    IN  [b EXCEPT !.rwc = b.rwc + 2,
                  !.container = [b.container EXCEPT ![t] = Append(@, stamped)],
                  !.step = [b.step EXCEPT
                               !.bus_mapping_instance = Append(@, ref)],
                  !.ref = ref]

\* push_op that stamps the operation but does not advance the counter.
push_op_noinc(b, rw, op) ==
    LET t == op.target
        stamped == [op EXCEPT !.rwc = b.rwc, !.rw = rw]
        ref == <<t, Len(b.container[t]) + 1>>
    IN  [b EXCEPT !.container = [b.container EXCEPT ![t] = Append(@, stamped)],
                  !.step = [b.step EXCEPT
                               !.bus_mapping_instance = Append(@, ref)],
                  !.ref = ref]

\* push_op that puts the new reference in front of the step's list.
push_op_front(b, rw, op) ==
    LET t == op.target
        stamped == [op EXCEPT !.rwc = b.rwc, !.rw = rw]
        ref == <<t, Len(b.container[t]) + 1>>
    IN  [b EXCEPT !.rwc = b.rwc + 1,
                  !.container = [b.container EXCEPT ![t] = Append(@, stamped)],
                  !.step = [b.step EXCEPT
                               !.bus_mapping_instance = <<ref>> \o @],
                  !.ref = ref]

\* push_op that hands out the reference of the first operation of the
\* target for every operation it stores.
push_op_first_ref(b, rw, op) ==
    LET t == op.target
        stamped == [op EXCEPT !.rwc = b.rwc, !.rw = rw]
        ref == <<t, 1>>
    IN  [b EXCEPT !.rwc = b.rwc + 1,
                  !.container = [b.container EXCEPT ![t] = Append(@, stamped)],
                  !.step = [b.step EXCEPT
                               !.bus_mapping_instance = Append(@, ref)],
                  !.ref = ref]

(***************************************************************************)
(* push_op: allocate the next RWC, store the stamped operation, append its *)
(* reference to the step and return it.                                    *)
(***************************************************************************)
push_op(b, rw, op) ==
    LET t == op.target
        stamped == [op EXCEPT !.rwc = b.rwc, !.rw = rw]
        ref == <<t, Len(b.container[t]) + 1>>
    IN  [b EXCEPT !.rwc = b.rwc + 1,
                  !.container = [b.container EXCEPT ![t] = Append(@, stamped)],
                  !.step = [b.step EXCEPT
                               !.bus_mapping_instance = Append(@, ref)],
                  !.ref = ref]

push_stack_op(b, rw, address, value) ==
    push_op(b, rw, StackOp(b.calls[b.ctx.index].call_id, address, value))

push_memory_op(b, rw, address, byte) ==
    push_op(b, rw, MemoryOp(b.calls[b.ctx.index].call_id, address, byte))

\* A reversible write: counted in the frame, and remembered in the open
\* reversion group when the frame is not persistent.
push_op_reversible(b, op) ==
    LET b1 == push_op(b, "WRITE", [op EXCEPT !.reversible = TRUE])
        b2 == [b1 EXCEPT !.ctx.reversible_write_counter = @ + 1]
    IN  IF ~b.calls[b.ctx.index].is_persistent
        THEN [b2 EXCEPT !.groups[Len(b.groups)].op_refs = Append(@, b1.ref)]
        ELSE b2

\* Stack::last_filled: the address of the top of the stack.
last_filled(stack) == STACK_CAPACITY - Len(stack)

\* Word::to_be_bytes: 32 bytes, most significant first.  Words of the model
\* stay below 2^24, so only the last three bytes can be non-zero.
to_be_bytes(w) ==
    [i \in 1..N_BYTES_WORD |->
        IF i < N_BYTES_WORD - 2 THEN 0
        ELSE (w \div (256 ^ (N_BYTES_WORD - i))) % 256]

RECURSIVE from_be_bytes(_, _)
from_be_bytes(bytes, n) ==
    IF n = 0 THEN 0 ELSE from_be_bytes(bytes, n - 1) * 256 + bytes[n]

\* Memory::read_word: an error when the word is not inside the memory.
read_word(memory, addr) ==
    IF addr + N_BYTES_WORD <= Len(memory)
    THEN [ok |-> TRUE,
          word |-> from_be_bytes(SubSeq(memory, addr + 1, addr + N_BYTES_WORD),
                                 N_BYTES_WORD)]
    ELSE [ok |-> FALSE, word |-> 0]

\* The memory the tracer reports after a word access at addr: grown with
\* zeros to the next multiple of the word size.
expand_memory(memory, addr) ==
    LET need == ((addr + N_BYTES_WORD + N_BYTES_WORD - 1) \div N_BYTES_WORD)
                    * N_BYTES_WORD
    IN  IF Len(memory) >= need THEN memory
        ELSE memory \o [i \in 1..(need - Len(memory)) |-> 0]

(***************************************************************************)
(* Opcode handlers.                                                        *)
(***************************************************************************)
\* Caller handler that writes the stack before it reads the call context.
Caller_stack_first(b, stack, next_stack) ==
    LET value == next_stack[Len(next_stack)]
        b1 == push_op(b, "WRITE",
                      StackOp(b.calls[b.ctx.index].call_id,
                              STACK_CAPACITY - Len(stack) - 1, value))
    IN  push_op(b1, "READ",
                CallContextOp(b.calls[b.ctx.index].call_id,
                              "CallerAddress", value))

\* Caller handler that writes one slot below the new top of the stack.
Caller_wrong_slot(b, stack, next_stack) ==
    LET value == next_stack[Len(next_stack)]
        b1 == push_op(b, "READ",
                      CallContextOp(b.calls[b.ctx.index].call_id,
                                    "CallerAddress", value))
    IN  push_stack_op(b1, "WRITE", last_filled(stack) - 2, value)

\* Caller handler that writes zero to the stack instead of the address.
Caller_zero_value(b, stack, next_stack) ==
    LET value == next_stack[Len(next_stack)]
        b1 == push_op(b, "READ",
                      CallContextOp(b.calls[b.ctx.index].call_id,
                                    "CallerAddress", value))
    IN  push_stack_op(b1, "WRITE", last_filled(stack) - 1, 0)

\* Caller::gen_associated_ops.  stack is geth_steps[0].stack, next_stack is
\* geth_steps[1].stack.
Caller_gen_associated_ops(b, stack, next_stack) ==
    LET value == next_stack[Len(next_stack)]
        b1 == push_op(b, "READ",
                      CallContextOp(b.calls[b.ctx.index].call_id,
                                    "CallerAddress", value))
    IN  push_stack_op(b1, "WRITE", last_filled(stack) - 1, value)

RECURSIVE push_memory_bytes(_, _, _, _)
push_memory_bytes(b, mem_read_addr, bytes, i) ==
    IF i > Len(bytes) THEN b
    ELSE push_memory_bytes(push_memory_op(b, "READ", mem_read_addr, bytes[i]),
                           mem_read_addr + 1, bytes, i + 1)

\* Mload handler whose stack read carries the loaded word instead of the
\* address on the stack.
Mload_read_loaded(b, stack, next_memory) ==
    LET stack_value_read == stack[Len(stack)]
        stack_position == last_filled(stack)
        mem_read_addr == stack_value_read
        r == read_word(next_memory, mem_read_addr)
        mem_read_value == IF r.ok THEN r.word ELSE 0
        b1 == push_stack_op(b, "READ", stack_position, mem_read_value)
        b2 == push_stack_op(b1, "WRITE", stack_position, mem_read_value)
    IN  push_memory_bytes(b2, mem_read_addr, to_be_bytes(mem_read_value), 1)

\* Mload handler that pushes the stack write after the memory reads.
Mload_write_last(b, stack, next_memory) ==
    LET stack_value_read == stack[Len(stack)]
        stack_position == last_filled(stack)
        b1 == push_stack_op(b, "READ", stack_position, stack_value_read)
        mem_read_addr == stack_value_read
        r == read_word(next_memory, mem_read_addr)
        mem_read_value == IF r.ok THEN r.word ELSE 0
        b2 == push_memory_bytes(b1, mem_read_addr,
                                to_be_bytes(mem_read_value), 1)
    IN  push_stack_op(b2, "WRITE", stack_position, mem_read_value)

\* Mload handler that fails when the trace's memory does not hold the word.
Mload_unwrap(b, stack, next_memory) ==
    LET stack_value_read == stack[Len(stack)]
        stack_position == last_filled(stack)
        b1 == push_stack_op(b, "READ", stack_position, stack_value_read)
        mem_read_addr == stack_value_read
        r == read_word(next_memory, mem_read_addr)
        b2 == push_stack_op(b1, "WRITE", stack_position, r.word)
    IN  IF r.ok
        THEN push_memory_bytes(b2, mem_read_addr, to_be_bytes(r.word), 1)
        ELSE [b1 EXCEPT !.step.error = "InvalidMemoryRead"]

\* Mload::gen_associated_ops.  stack is steps[0].stack, next_memory is
\* steps[1].memory.
Mload_gen_associated_ops(b, stack, next_memory) ==
    LET stack_value_read == stack[Len(stack)]
        stack_position == last_filled(stack)
        b1 == push_stack_op(b, "READ", stack_position, stack_value_read)
        mem_read_addr == stack_value_read
        r == read_word(next_memory, mem_read_addr)
        mem_read_value == IF r.ok THEN r.word ELSE 0
        b2 == push_stack_op(b1, "WRITE", stack_position, mem_read_value)
    IN  push_memory_bytes(b2, mem_read_addr, to_be_bytes(mem_read_value), 1)

\* SSTORE: the reversible storage write of the current frame.
Sstore_gen_associated_ops(b, key, value) ==
    LET address == b.calls[b.ctx.index].address
        b1 == push_op_reversible(b,
                  StorageOp(address, key, value, b.sdb[key], tx_id,
                            committed[key]))
    IN  [b1 EXCEPT !.sdb[key] = value]

\* SLOAD: a storage read of the current value.
Sload_gen_associated_ops(b, key) ==
    push_op(b, "READ",
            StorageOp(b.calls[b.ctx.index].address, key, b.sdb[key],
                      b.sdb[key], tx_id, committed[key]))

(***************************************************************************)
(* Copy events (circuit_input_builder/execution.rs) and their extraction.  *)
(***************************************************************************)
\* CopyDataType as usize: Bytecode = 1 and counting.
CopyDataTypeOrd(t) ==
    CASE t = "Bytecode" -> 1
      [] t = "Memory" -> 2
      [] t = "TxCalldata" -> 3
      [] t = "TxLog" -> 4
      [] t = "RlcAcc" -> 5

\* CopyStep.  is_code is the Option<bool> "None", "Some(true)" or
\* "Some(false)", set only when the source is bytecode; is_pad is
\* the flag the copy circuit reads from the step.
CopyStep(addr, tag, rw, value, is_code, is_pad, step_rwc, rwc_inc_left) ==
    [addr |-> addr, tag |-> tag, rw |-> rw, value |-> value,
     is_code |-> is_code, is_pad |-> is_pad, rwc |-> step_rwc,
     rwc_inc_left |-> rwc_inc_left]

\* CopyEvent without its steps.
CopyEvent(src_type, src_id, src_addr, src_addr_end, dst_type, dst_id, dst_addr, log_id, length) ==
    [src_addr |-> src_addr, src_addr_end |-> src_addr_end,
     src_type |-> src_type, src_id |-> src_id, dst_addr |-> dst_addr,
     dst_type |-> dst_type, dst_id |-> dst_id, log_id |-> log_id,
     length |-> length, steps |-> <<>>]

\* The data of the trace a copy reads: the calldata of the transaction, of
\* an internal call (it lies at the start of the caller's memory), and the
\* code of the contract with its opcode / push-data flags.
CallData == <<7, 9>>
Code == <<96, 1>>
CodeIsCode == <<TRUE, FALSE>>
CodeHash == 99

\* is_state_type that takes the calldata of a transaction for state.
is_state_type_calldata(tag) == tag \in {"Memory", "TxLog", "TxCalldata"}

\* The endpoints that consume one RWC per touched byte.
is_state_type(tag) == tag \in {"Memory", "TxLog"}

\* The byte a source holds at an address inside its range; memory that was
\* never written reads as zero.
read_byte(src_type, memory, addr) ==
    CASE src_type = "TxCalldata" ->
             IF addr < Len(CallData) THEN CallData[addr + 1] ELSE 0
      [] src_type = "Bytecode" ->
             IF addr < Len(Code) THEN Code[addr + 1] ELSE 0
      [] src_type = "Memory" ->
             IF addr < Len(memory) THEN memory[addr + 1] ELSE 0

\* The number of RWCs the whole event consumes.
total_rw_inc(ev) ==
    (IF is_state_type(ev.src_type)
     THEN Cardinality({i \in 0..(ev.length - 1) :
                          ev.src_addr + i < ev.src_addr_end})
     ELSE 0)
    + (IF is_state_type(ev.dst_type) THEN ev.length ELSE 0)

\* The pair of a byte whose write step carries another value than was read.
copy_byte_pair_next_byte(b, ev, memory, i, left) ==
    LET src == ev.src_addr + i
        is_pad == src >= ev.src_addr_end
        value == IF is_pad THEN 0 ELSE read_byte(ev.src_type, memory, src)
        rd == IF is_state_type(ev.src_type) /\ ~is_pad THEN 1 ELSE 0
        wd == IF is_state_type(ev.dst_type) THEN 1 ELSE 0
        read == CopyStep(src, ev.src_type, "READ", value, "None", is_pad,
                         b.rwc, left)
        b1 == IF rd = 1
              THEN push_op(b, "READ", MemoryOp(ev.src_id, src, value))
              ELSE b
        dst == ev.dst_addr + i
        write == CopyStep(dst, ev.dst_type, "WRITE", value + 1, "None", FALSE,
                          b1.rwc, left - rd)
        b2 == IF wd = 1
              THEN push_op(b1, "WRITE", MemoryOp(ev.dst_id, dst, value + 1))
              ELSE b1
    IN  [b |-> b2, steps |-> <<read, write>>, left |-> left - rd - wd]

\* The two steps of byte i of a copy: a read step, then a write step, each
\* pushing its memory or log operation when it touches state.  left is the
\* number of RWCs the event has still to consume.
copy_byte_pair(b, ev, memory, i, left) ==
    LET src == ev.src_addr + i
        is_pad == src >= ev.src_addr_end
        value == IF is_pad THEN 0 ELSE read_byte(ev.src_type, memory, src)
        is_code == IF ev.src_type = "Bytecode" /\ ~is_pad
                   THEN (IF CodeIsCode[src + 1] THEN "Some(true)"
                         ELSE "Some(false)")
                   ELSE "None"
        rd == IF is_state_type(ev.src_type) /\ ~is_pad THEN 1 ELSE 0
        wd == IF is_state_type(ev.dst_type) THEN 1 ELSE 0
        read == CopyStep(src, ev.src_type, "READ", value, is_code, is_pad,
                         b.rwc, left)
        b1 == IF rd = 1
              THEN push_op(b, "READ", MemoryOp(ev.src_id, src, value))
              ELSE b
        dst == ev.dst_addr + i
        write == CopyStep(dst, ev.dst_type, "WRITE", value, "None", FALSE,
                          b1.rwc, left - rd)
        b2 == IF wd = 1
              THEN push_op(b1, "WRITE",
                           IF ev.dst_type = "Memory"
                           THEN MemoryOp(ev.dst_id, dst, value)
                           ELSE TxLogOp(ev.dst_id, ev.log_id, dst, value))
              ELSE b1
    IN  [b |-> b2, steps |-> <<read, write>>, left |-> left - rd - wd]

\* The steps of bytes i .. length - 1, appended to those built so far.
RECURSIVE gen_copy_steps(_, _, _, _)
gen_copy_steps(acc, ev, memory, i) ==
    IF i = ev.length THEN acc
    ELSE LET r == copy_byte_pair(acc.b, ev, memory, i, acc.left)
         IN  gen_copy_steps([b |-> r.b, steps |-> acc.steps \o r.steps,
                             left |-> r.left], ev, memory, i + 1)

\* The copy event of an opcode: its steps, built on the builder b.
gen_copy_event(b, ev, memory) ==
    LET r == gen_copy_steps([b |-> b, steps |-> <<>>,
                             left |-> total_rw_inc(ev)], ev, memory, 0)
    IN  [b |-> r.b, event |-> [ev EXCEPT !.steps = r.steps]]

(***************************************************************************)
(* Call frames and reversion.                                              *)
(***************************************************************************)
CallOffset(group, idx) ==
    LET i == CHOOSE j \in 1..Len(group.calls) : group.calls[j][1] = idx
    IN  group.calls[i][2]

\* TransactionContext::push_call_ctx: a failing call opens a reversion group,
\* a succeeding call inside an open group joins it at the caller's offset.
push_call_ctx(groups, call_idx, is_success, caller_ctx) ==
    IF ~is_success
    THEN Append(groups, [calls |-> << <<call_idx, 0>> >>, op_refs |-> <<>>])
    ELSE IF groups # <<>>
    THEN LET g == groups[Len(groups)]
             off == caller_ctx.reversible_write_counter
                        + CallOffset(g, caller_ctx.index)
         IN  [groups EXCEPT ![Len(groups)].calls =
                                Append(@, <<call_idx, off>>)]
    ELSE groups

\* The addresses of the trace: the sender of the n-th transaction, and the
\* account a call executes.  Every call of the trace runs the one contract
\* account, which calls itself, so that all frames share its storage.
SenderOf(n) == 2 * n

AddressOf(idx) == 3

\* Persistence that looks at the frame's own success only.
is_persistent_own(is_success, is_root, caller) == is_success

\* The persistence of a new frame.
is_persistent_of(is_success, is_root, caller) ==
    IF is_root THEN is_success ELSE is_success /\ caller.is_persistent

NewCall(call_id, caller_idx, is_success, caller_address, address) ==
    [call_id |-> call_id,
     caller_id |-> caller_idx,
     is_root |-> caller_idx = 0,
     is_success |-> is_success,
     is_persistent |-> is_persistent_of(is_success, caller_idx = 0,
                          IF caller_idx = 0 THEN [is_persistent |-> TRUE]
                          ELSE calls[caller_idx]),
     rw_counter_end_of_reversion |-> 0,
     depth |-> Len(call_stack) + 1,
     caller_address |-> caller_address,
     address |-> address]

NewCallContext(idx) ==
    [index |-> idx, reversible_write_counter |-> 0, stack |-> <<>>,
     memory |-> <<>>]

\* The write that undoes a reversible write: value and value_prev swapped.
rev_op(op) ==
    StorageOp(op.address, op.key, op.value_prev, op.value, op.id,
              op.committed_value)

RECURSIVE apply_reversions(_, _, _)
apply_reversions(b, op_refs, i) ==
    IF i = 0 THEN b
    ELSE LET ref == op_refs[i]
             rev == rev_op(b.container[ref[1]][ref[2]])
             b1 == push_op(b, "WRITE", rev)
         IN  apply_reversions([b1 EXCEPT !.sdb[rev.key] = rev.value],
                              op_refs, i - 1)

RECURSIVE set_end_of_reversion(_, _, _, _)
set_end_of_reversion(cs, group_calls, end, i) ==
    IF i > Len(group_calls) THEN cs
    ELSE set_end_of_reversion(
             [cs EXCEPT ![group_calls[i][1]].rw_counter_end_of_reversion =
                            end - group_calls[i][2]],
             group_calls, end, i + 1)

\* handle_reversion: undo the open group's writes, last write first, and
\* fix rw_counter_end_of_reversion of the group's calls.
handle_reversion(b) ==
    LET g == b.groups[Len(b.groups)]
        b1 == apply_reversions(b, g.op_refs, Len(g.op_refs))
    IN  [b1 EXCEPT !.groups = SubSeq(b.groups, 1, Len(b.groups) - 1),
                   !.calls = set_end_of_reversion(b.calls, g.calls,
                                                  b1.rwc - 1, 1)]

Init ==
    /\ rwc = 1
    /\ container = [t \in Targets |-> <<>>]
    /\ steps = <<>>
    /\ calls = <<>>
    /\ frame_state = <<>>
    /\ call_stack = <<>>
    /\ reversion_groups = <<>>
    /\ sdb = [k \in Keys |-> 0]
    /\ committed = [k \in Keys |-> 0]
    /\ tx_id = 0
    /\ phase = "idle"
    /\ last_ref = <<>>
    /\ copy_events = <<>>
    /\ padded = NoPadding
    /\ geth_trace = <<>>
    /\ witness = <<>>

(***************************************************************************)
(* The witness side: RwMap of witness/rw.rs over the container's rows.     *)
(***************************************************************************)
\* self.0.values().flatten(): every stored row, target by target.
AllRows(c) ==
    c["Memory"] \o c["Stack"] \o c["Storage"] \o c["Account"]
        \o c["CallContext"] \o c["TxLog"]

RowSet(c) == {AllRows(c)[i] : i \in 1..Len(AllRows(c))}

is_write(row) == row.rw = "WRITE"

\* The key check_value and table_assignments group the rows by.
RowKey(row) ==
    <<TagOrd(row.target), row.id, row.address, FieldOrd(row.field), row.key>>

RECURSIVE LexLess(_, _, _)
LexLess(a, b, i) ==
    IF i > Len(a) THEN FALSE
    ELSE IF a[i] # b[i] THEN a[i] < b[i]
    ELSE LexLess(a, b, i + 1)

\* RwMap::table_assignments.
table_assignments(c, keep_chronological_order) ==
    IF keep_chronological_order
    THEN SortSeq(AllRows(c),
                 LAMBDA x, y : LexLess(<<x.rwc, TagOrd(x.target)>>,
                                       <<y.rwc, TagOrd(y.target)>>, 1))
    ELSE SortSeq(AllRows(c),
                 LAMBDA x, y : LexLess(Append(RowKey(x), x.rwc),
                                       Append(RowKey(y), y.rwc), 1))

\* RwMap::check_rw_counter_sanity: the sorted counters of the rows that are
\* neither Start nor Padding differ by one from each to the next.
check_rw_counter_sanity(c) ==
    LET sorted == SortSeq([i \in 1..Len(AllRows(c)) |-> AllRows(c)[i].rwc],
                          LAMBDA x, y : x < y)
    IN  \A i \in 1..(Len(sorted) - 1) : sorted[i + 1] - sorted[i] = 1

\* The initial value MptUpdates holds for a row: only storage rows have one.
init_value(row) ==
    IF row.target = "Storage"
    THEN [some |-> TRUE, value |-> row.committed_value]
    ELSE [some |-> FALSE, value |-> 0]

\* RwMap::check_value: the (index, message) pairs it reports.
check_value(c) ==
    LET rows == table_assignments(c, FALSE)
        is_first(idx) == RowKey(rows[idx - 1]) # RowKey(rows[idx])
    IN  {<<idx, "first">> : idx \in
            {j \in 2..Len(rows) :
                /\ ~is_write(rows[j])
                /\ is_first(j)
                /\ init_value(rows[j]).some
                /\ rows[j].value # init_value(rows[j]).value}}
        \cup
        {<<idx, "non_first">> : idx \in
            {j \in 2..Len(rows) :
                /\ ~is_write(rows[j])
                /\ ~is_first(j)
                /\ rows[j].value # rows[j - 1].value}}

(***************************************************************************)
(* The circuit side: the RW lookups a gadget demands                       *)
(* (evm_circuit/util/constraint_builder.rs).                               *)
(***************************************************************************)
\* RwValues of a stored row.
RwValues(row) ==
    [id |-> row.id, address |-> row.address, field_tag |-> FieldOrd(row.field),
     storage_key |-> row.key, value |-> row.value,
     value_prev |-> row.value_prev, init_val |-> row.committed_value]

\* RwValues::revert_value: the write that restores the previous value.
revert_value(values) ==
    [values EXCEPT !.value = values.value_prev, !.value_prev = values.value]

\* The constraint builder at the start of a step.
ConstraintBuilder(step) ==
    [rw_counter |-> step.rwc, rw_counter_offset |-> 0, lookups |-> <<>>]

\* rw_lookup_with_counter: demand a row of the RW table.
rw_lookup_with_counter(cb, counter, isw, tag, values) ==
    [cb EXCEPT !.lookups = Append(@, [counter |-> counter, is_write |-> isw,
                                      tag |-> tag, values |-> values])]

\* rw_lookup: the row at the step's next counter.
rw_lookup(cb, isw, tag, values) ==
    [rw_lookup_with_counter(cb, cb.rw_counter + cb.rw_counter_offset, isw,
                            tag, values)
        EXCEPT !.rw_counter_offset = @ + 1]

\* The ReversionInfo of the current call: the cells of the two call-context
\* fields, holding the values ReversionInfo::assign gives them from the Call
\* record, and the step's reversible_write_counter.  The two call-context
\* lookups that tie the cells to the table are not modelled.
reversion_info(call, step) ==
    [rw_counter_end_of_reversion |-> call.rw_counter_end_of_reversion,
     is_persistent |-> call.is_persistent,
     reversible_write_counter |-> step.reversible_write_counter]

\* rw_counter_of_reversion that counts the write before it subtracts.
rw_counter_of_reversion_inc_first(info, inc_selector) ==
    [counter |-> info.rw_counter_end_of_reversion
                     - (info.reversible_write_counter + inc_selector),
     info |-> [info EXCEPT !.reversible_write_counter = @ + inc_selector]]

\* rw_counter_of_reversion that leaves the counter of the writes as it is.
rw_counter_of_reversion_no_inc(info, inc_selector) ==
    [counter |-> info.rw_counter_end_of_reversion
                     - info.reversible_write_counter,
     info |-> info]

\* ReversionInfo::rw_counter_of_reversion.
rw_counter_of_reversion(info, inc_selector) ==
    [counter |-> info.rw_counter_end_of_reversion
                     - info.reversible_write_counter,
     info |-> [info EXCEPT !.reversible_write_counter = @ + inc_selector]]

\* reversible_write that demands the reverting row in every frame.
reversible_write_always(cb, tag, values, info) ==
    LET cb1 == rw_lookup(cb, TRUE, tag, values)
        r == rw_counter_of_reversion(info, 1)
    IN  [cb |-> rw_lookup_with_counter(cb1, r.counter, TRUE, tag,
                                       revert_value(values)),
         info |-> r.info]

\* EVMConstraintBuilder::reversible_write.
reversible_write(cb, tag, values, info) ==
    LET cb1 == rw_lookup(cb, TRUE, tag, values)
        r == rw_counter_of_reversion(info, 1)
    IN  [cb |-> IF ~info.is_persistent
                THEN rw_lookup_with_counter(cb1, r.counter, TRUE, tag,
                                            revert_value(values))
                ELSE cb1,
         info |-> r.info]

\* The constraint builder of a gadget: the state of the current step (its
\* counter, call id and stack pointer) and the offsets the lookups advance.
StepConstraintBuilder(step, call_id) ==
    [rw_counter |-> step.rwc, rw_counter_offset |-> 0, lookups |-> <<>>,
     call_id |-> call_id, stack_pointer |-> STACK_CAPACITY - step.stack_size,
     stack_pointer_offset |-> 0]

\* call_context_lookup_read of a field of the current call.
call_context_lookup(cb, field_tag, value) ==
    rw_lookup(cb, FALSE, "CallContext",
              [id |-> cb.call_id, address |-> 0,
               field_tag |-> FieldOrd(field_tag), storage_key |-> 0,
               value |-> value, value_prev |-> 0, init_val |-> 0])

\* account_read: the value is also the previous value.
account_read(cb, account_address, field_tag, value) ==
    rw_lookup(cb, FALSE, "Account",
              [id |-> 0, address |-> account_address,
               field_tag |-> FieldOrd(field_tag), storage_key |-> 0,
               value |-> value, value_prev |-> value, init_val |-> 0])

\* stack_lookup: the slot at the step's stack pointer plus the offset.
stack_lookup(cb, isw, stack_pointer_offset, value) ==
    rw_lookup(cb, isw, "Stack",
              [id |-> cb.call_id,
               address |-> cb.stack_pointer + stack_pointer_offset,
               field_tag |-> 0, storage_key |-> 0, value |-> value,
               value_prev |-> 0, init_val |-> 0])

\* stack_pop that reads the slot and leaves the offset where it is.
stack_pop_no_advance(cb, value) ==
    stack_lookup(cb, FALSE, cb.stack_pointer_offset, value)

\* stack_pop: read the slot at the offset, then raise the offset.
stack_pop(cb, value) ==
    [stack_lookup(cb, FALSE, cb.stack_pointer_offset, value)
        EXCEPT !.stack_pointer_offset = @ + 1]

\* stack_push: lower the offset, then write the slot at it.
stack_push(cb, value) ==
    stack_lookup([cb EXCEPT !.stack_pointer_offset = @ - 1], TRUE,
                 cb.stack_pointer_offset - 1, value)

\* Transition::Same, Delta, To and Any of a field of the step state.
Transition_Same == [kind |-> "Same", v |-> 0]
Transition_Delta(d) == [kind |-> "Delta", v |-> d]
Transition_To(t) == [kind |-> "To", v |-> t]
Transition_Any == [kind |-> "Any", v |-> 0]

\* StepStateTransition::default: every field stays the same.
StepStateTransition ==
    [rw_counter |-> Transition_Same, call_id |-> Transition_Same, program_counter |-> Transition_Same,
     stack_pointer |-> Transition_Same, memory_word_size |-> Transition_Same,
     reversible_write_counter |-> Transition_Same]

\* The step state of the witness of a step (step_convert).
step_state(step) ==
    [rw_counter |-> step.rwc,
     call_id |-> step.call_index,
     program_counter |-> step.pc,
     stack_pointer |-> STACK_CAPACITY - step.stack_size,
     memory_word_size |-> step.memory_size \div N_BYTES_WORD,
     reversible_write_counter |-> step.reversible_write_counter]

\* require_step_state_transition: the constraint of every field between
\* the current and the next step state.
require_step_state_transition(t, curr, next) ==
    \A name \in DOMAIN t :
        CASE t[name].kind = "Same" -> next[name] = curr[name]
          [] t[name].kind = "Delta" -> next[name] = curr[name] + t[name].v
          [] t[name].kind = "To" -> next[name] = t[name].v
          [] OTHER -> TRUE

\* SelfbalanceGadget that leaves the account read out.
SelfbalanceGadget_no_account_read(cb, callee_address, self_balance) ==
    LET cb1 == call_context_lookup(cb, "CalleeAddress", callee_address)
        cb2 == stack_push(cb1, self_balance)
    IN  [cb |-> cb2,
         step_state_transition |->
             [StepStateTransition EXCEPT !.rw_counter = Transition_Delta(2),
                                         !.program_counter = Transition_Delta(1),
                                         !.stack_pointer = Transition_Delta(-1)]]

\* SelfbalanceGadget::configure: the three lookups and the transition of
\* the step state.  The cells hold what assign_exec_step gives them.
SelfbalanceGadget(cb, callee_address, self_balance) ==
    LET cb1 == call_context_lookup(cb, "CalleeAddress", callee_address)
        cb2 == account_read(cb1, callee_address, "Balance", self_balance)
        cb3 == stack_push(cb2, self_balance)
    IN  [cb |-> cb3,
         step_state_transition |->
             [StepStateTransition EXCEPT !.rw_counter = Transition_Delta(3),
                                         !.program_counter = Transition_Delta(1),
                                         !.stack_pointer = Transition_Delta(-1)]]

\* NotGadget whose push lowers the stack pointer.
NotGadget_push_below(cb, input, output) ==
    LET cb1 == stack_push(cb, output)
        cb2 == stack_pop(cb1, input)
    IN  [cb |-> cb2,
         bitwise |-> input + output = WordMax,
         step_state_transition |->
             [StepStateTransition EXCEPT !.rw_counter = Transition_Delta(2),
                                         !.program_counter = Transition_Delta(1),
                                         !.stack_pointer = Transition_Delta(-1)]]

\* NotGadget::configure: the pop of the input, the push of the output, the
\* lookup of input XOR output = 255 for the byte of the word, and the
\* transition of the step state.
NotGadget(cb, input, output) ==
    LET cb1 == stack_pop(cb, input)
        cb2 == stack_push(cb1, output)
    IN  [cb |-> cb2,
         bitwise |-> input + output = WordMax,
         step_state_transition |->
             [StepStateTransition EXCEPT !.rw_counter = Transition_Delta(2),
                                         !.program_counter = Transition_Delta(1),
                                         !.stack_pointer = Transition_Delta(0)]]

\* ReturnGadget next-state constraints that demand EndTx of every call.
ReturnGadget_next_state_always_end_tx(is_root, next_state) ==
    next_state = "EndTx"

\* ReturnGadget::configure, the constraints on the next execution state:
\* require_next_state(EndTx) under is_root, require_next_state_not(EndTx)
\* under not is_root.
ReturnGadget_next_state(is_root, next_state) ==
    /\ is_root => next_state = "EndTx"
    /\ ~is_root => next_state # "EndTx"

\* A lookup holds when the RW table has the row.
LookupHolds(c, l) ==
    \E row \in RowSet(c) :
        /\ row.rwc = l.counter
        /\ is_write(row) = l.is_write
        /\ row.target = l.tag
        /\ RwValues(row) = l.values

\* copy_table_lookup that leaves the step's counter offset where it was.
copy_table_lookup_no_advance(cb, src_id, src_tag, dst_id, dst_tag, src_addr, src_addr_end, dst_addr, length, rwc_inc) ==
    [cb |-> cb,
     lookup |-> [is_first |-> 1, src_id |-> src_id, src_tag |-> src_tag,
                 dst_id |-> dst_id, dst_tag |-> dst_tag,
                 src_addr |-> src_addr, src_addr_end |-> src_addr_end,
                 dst_addr |-> dst_addr, length |-> length,
                 rw_counter |-> cb.rw_counter + cb.rw_counter_offset,
                 rwc_inc |-> rwc_inc]]

\* EVMConstraintBuilder::copy_table_lookup: demand the first row of an
\* event at the step's next counter, and advance the offset by rwc_inc.
copy_table_lookup(cb, src_id, src_tag, dst_id, dst_tag, src_addr, src_addr_end, dst_addr, length, rwc_inc) ==
    [cb |-> [cb EXCEPT !.rw_counter_offset = @ + rwc_inc],
     lookup |-> [is_first |-> 1, src_id |-> src_id, src_tag |-> src_tag,
                 dst_id |-> dst_id, dst_tag |-> dst_tag,
                 src_addr |-> src_addr, src_addr_end |-> src_addr_end,
                 dst_addr |-> dst_addr, length |-> length,
                 rw_counter |-> cb.rw_counter + cb.rw_counter_offset,
                 rwc_inc |-> rwc_inc]]

\* ReturnGadget::configure, the copy-table lookup of a RETURN that is not
\* a create, is not of the root call and has a range that is not empty.  The
\* source passes range.length() as the end of the source, return_data_length
\* as the length and their sum as the counter increase.
ReturnGadget_copy_table_lookup(cb, call_id, caller_id, offset, length, return_data_offset, return_data_length) ==
    copy_table_lookup(cb, call_id, "Memory", caller_id, "Memory", offset,
                      length, return_data_offset, return_data_length,
                      length + return_data_length).lookup

\* ReturnGadget::configure for the values of its cells: the pop bound to
\* length, the pop bound to offset, the six call-context reads, for the
\* root call the lookup of IsSuccess, the copy lookup of a call that is not
\* a create, is not the root and has a range that is not empty, and for a
\* call that is not the root the restoring of the caller's context, told to
\* start at the offset 8.
ReturnGadget(cb, offset, length, call, return_data_offset, return_data_length) ==
    LET cb1 == stack_pop(cb, length)
        cb2 == stack_pop(cb1, offset)
        cb3 == call_context_lookup(cb2, "IsRoot", Bit(call.is_root))
        cb4 == call_context_lookup(cb3, "IsCreate", 0)
        cb5 == call_context_lookup(cb4, "IsSuccess", Bit(call.is_success))
        cb6 == call_context_lookup(cb5, "CallerId", call.caller_id)
        cb7 == call_context_lookup(cb6, "ReturnDataOffset",
                                   return_data_offset)
        cb8 == call_context_lookup(cb7, "ReturnDataLength",
                                   return_data_length)
        cb9 == IF call.is_root
               THEN call_context_lookup(cb8, "IsSuccess",
                                        Bit(call.is_success))
               ELSE cb8
    IN  [cb |-> cb9,
         range |-> [offset |-> offset, length |-> length],
         copy_lookup |->
             IF ~call.is_root /\ length > 0
             THEN <<ReturnGadget_copy_table_lookup(
                        cb9, cb.call_id, call.caller_id, offset, length,
                        return_data_offset, return_data_length)>>
             ELSE <<>>,
         restore_context |->
             IF ~call.is_root THEN <<[rw_offset |-> 8]>> ELSE <<>>]

\* A copy lookup holds when the copy table has the pair of rows: the read
\* row gives the source, the row below it the destination.
CopyTableLookupHolds(rows, l) ==
    \E o \in 1..(Len(rows) - 2) :
        /\ rows[o].q_enable = 1
        /\ rows[o].is_first = l.is_first
        /\ rows[o].id = l.src_id
        /\ rows[o].tag = l.src_tag
        /\ rows[o + 1].id = l.dst_id
        /\ rows[o + 1].tag = l.dst_tag
        /\ rows[o].addr = l.src_addr
        /\ rows[o].src_addr_end = l.src_addr_end
        /\ rows[o + 1].addr = l.dst_addr
        /\ rows[o].bytes_left = l.length
        /\ rows[o].rw_counter = l.rw_counter
        /\ rows[o].rwc_inc_left = l.rwc_inc

(***************************************************************************)
(* Actions: one per trace step the builder handles.                        *)
(***************************************************************************)
CurCtx == call_stack[Len(call_stack)]
CurCall == calls[CurCtx.index]

\* Store what a handler produced and append its step to the transaction.
Commit(b, stack, memory) ==
    /\ rwc' = b.rwc
    /\ container' = b.container
    /\ steps' = Append(steps, b.step)
    /\ last_ref' = b.ref
    /\ sdb' = b.sdb
    /\ reversion_groups' = b.groups
    /\ calls' = b.calls
    /\ call_stack' = [call_stack EXCEPT ![Len(call_stack)] =
                          [b.ctx EXCEPT !.stack = stack, !.memory = memory]]

\* The opcode steps handled so far; the virtual steps are not counted.
OpSteps ==
    Cardinality({n \in 1..Len(steps) :
                    steps[n].exec_state \notin {"BeginTx", "EndTx"}})

Running == phase = "running" /\ OpSteps < MaxSteps

\* The virtual BeginTx step: the root call is created and its IsPersistent
\* call-context field is written.
BeginTx(is_success) ==
    /\ phase = "idle"
    /\ tx_id < MaxTxs
    /\ LET idx == Len(calls) + 1
           call == NewCall(rwc, 0, is_success, SenderOf(tx_id + 1),
                           AddressOf(idx))
           ctx == NewCallContext(idx)
           b0 == [rwc |-> rwc, container |-> container,
                  step |-> ExecStep_new("BeginTx", 0, ctx, rwc, 0),
                  ref |-> last_ref, ctx |-> ctx,
                  calls |-> Append(calls, call),
                  groups |-> push_call_ctx(reversion_groups, idx, is_success,
                                           ctx),
                  sdb |-> sdb]
           b1 == push_op(b0, "WRITE",
                         CallContextOp(call.call_id, "IsPersistent",
                                       IF call.is_persistent THEN 1 ELSE 0))
       IN  /\ rwc' = b1.rwc
           /\ container' = b1.container
           /\ steps' = Append(steps, b1.step)
           /\ last_ref' = b1.ref
           /\ calls' = b1.calls
           /\ reversion_groups' = b1.groups
           /\ call_stack' = <<ctx>>
           /\ frame_state' = Append(frame_state, "Active")
    /\ tx_id' = tx_id + 1
    /\ committed' = sdb
    /\ phase' = "running"
    /\ UNCHANGED <<sdb, copy_events, padded,
                   geth_trace, witness>>

Caller ==
    /\ Running
    /\ Len(CurCtx.stack) < MaxStack
    /\ LET stack == CurCtx.stack
           next_stack == Append(stack, CurCall.caller_address)
           b == Caller_gen_associated_ops(Builder(new_step("CALLER")),
                                          stack, next_stack)
       IN  Commit(b, next_stack, CurCtx.memory)
    /\ UNCHANGED <<frame_state, committed, tx_id, phase, copy_events, padded,
                   geth_trace, witness>>

Mload ==
    /\ Running
    /\ Len(CurCtx.stack) > 0
    /\ LET stack == CurCtx.stack
           addr == stack[Len(stack)]
           next_memory == expand_memory(CurCtx.memory, addr)
           b == Mload_gen_associated_ops(Builder(new_step("MLOAD")),
                                         stack, next_memory)
           word == read_word(next_memory, addr).word
       IN  Commit(b, [stack EXCEPT ![Len(stack)] = word], next_memory)
    /\ UNCHANGED <<frame_state, committed, tx_id, phase, copy_events, padded,
                   geth_trace, witness>>

Sstore(key, value) ==
    /\ Running
    /\ LET b == Sstore_gen_associated_ops(Builder(new_step("SSTORE")),
                                          key, value)
       IN  Commit(b, CurCtx.stack, CurCtx.memory)
    /\ UNCHANGED <<frame_state, committed, tx_id, phase, copy_events, padded,
                   geth_trace, witness>>

Sload(key) ==
    /\ Running
    /\ LET b == Sload_gen_associated_ops(Builder(new_step("SLOAD")), key)
       IN  Commit(b, CurCtx.stack, CurCtx.memory)
    /\ UNCHANGED <<frame_state, committed, tx_id, phase, copy_events, padded,
                   geth_trace, witness>>

\* A CALL that enters a new frame.
Call(is_success) ==
    /\ Running
    /\ Len(call_stack) < MaxDepth
    /\ LET idx == Len(calls) + 1
           call == NewCall(rwc, CurCtx.index, is_success, CurCall.address,
                           AddressOf(idx))
           b0 == [Builder(new_step("CALL")) EXCEPT
                      !.calls = Append(calls, call),
                      !.groups = push_call_ctx(reversion_groups, idx,
                                               is_success, CurCtx)]
           b1 == push_op(b0, "WRITE",
                         CallContextOp(call.call_id, "IsPersistent",
                                       IF call.is_persistent THEN 1 ELSE 0))
       IN  /\ rwc' = b1.rwc
           /\ container' = b1.container
           /\ steps' = Append(steps, b1.step)
           /\ last_ref' = b1.ref
           /\ calls' = b1.calls
           /\ reversion_groups' = b1.groups
           /\ call_stack' = Append(call_stack, NewCallContext(idx))
           /\ frame_state' = Append(frame_state, "Active")
    /\ UNCHANGED <<sdb, committed, tx_id, phase, copy_events, padded,
                   geth_trace, witness>>

\* Leaving a frame without popping it.
PopFrame_keep(b, new_state) ==
    /\ rwc' = b.rwc
    /\ container' = b.container
    /\ steps' = Append(steps, b.step)
    /\ last_ref' = b.ref
    /\ sdb' = b.sdb
    /\ reversion_groups' = b.groups
    /\ calls' = b.calls
    /\ frame_state' = [frame_state EXCEPT ![b.ctx.index] = new_state]
    /\ call_stack' = call_stack
    /\ phase' = IF Len(call_stack) = 1 THEN "endtx" ELSE phase
    /\ UNCHANGED <<committed, tx_id, copy_events, padded,
                   geth_trace, witness>>

\* Leaving a frame: it is popped and the caller resumes; a successful
\* callee hands its reversible writes to the caller's count.
PopFrame(b, new_state) ==
    /\ rwc' = b.rwc
    /\ container' = b.container
    /\ steps' = Append(steps, b.step)
    /\ last_ref' = b.ref
    /\ sdb' = b.sdb
    /\ reversion_groups' = b.groups
    /\ calls' = b.calls
    /\ frame_state' = [frame_state EXCEPT ![b.ctx.index] = new_state]
    /\ LET n == Len(call_stack)
           rest == SubSeq(call_stack, 1, n - 1)
       IN  call_stack' =
               IF n > 1 /\ new_state = "Returned"
               THEN [rest EXCEPT ![n - 1].reversible_write_counter =
                                     @ + b.ctx.reversible_write_counter]
               ELSE rest
    /\ phase' = IF Len(call_stack) = 1 THEN "endtx" ELSE phase
    /\ UNCHANGED <<committed, tx_id, copy_events, padded,
                   geth_trace, witness>>

\* STOP of a frame whose is_success is true.
Stop ==
    /\ Running
    /\ CurCall.is_success
    /\ PopFrame(Builder(new_step("STOP")), "Returned")

\* REVERT of a frame whose is_success is false.
Revert ==
    /\ Running
    /\ ~CurCall.is_success
    /\ PopFrame(handle_reversion(Builder(new_step("REVERT"))), "Reverted")

\* The virtual EndTx step.
EndTx ==
    /\ phase = "endtx"
    /\ steps' = Append(steps,
                       [exec_state |-> "EndTx", stack_size |-> 0,
                        memory_size |-> 0,
                        call_index |-> steps[Len(steps)].call_index,
                        rwc |-> rwc, reversible_write_counter |-> 0,
                        bus_mapping_instance |-> <<>>, error |-> "None"])
    /\ phase' = "idle"
    /\ UNCHANGED <<rwc, container, calls, frame_state, call_stack,
                   reversion_groups, sdb, committed, tx_id, last_ref,
                   copy_events, padded,
                   geth_trace, witness>>

Next ==
    \/ \E s \in BOOLEAN : BeginTx(s)
    \/ Caller
    \/ Mload
    \/ \E k \in Keys, v \in Vals : Sstore(k, v)
    \/ \E k \in Keys : Sload(k)
    \/ \E s \in BOOLEAN : Call(s)
    \/ Stop
    \/ Revert
    \/ EndTx


Spec == Init /\ [][Next]_vars

(***************************************************************************)
(* The emission choke point on its own: single push_op calls on the        *)
(* current step of a root call, and new steps in between.                  *)
(***************************************************************************)
InitPush ==
    /\ rwc = 1
    /\ container = [t \in Targets |-> <<>>]
    /\ call_stack = <<NewCallContext(1)>>
    /\ calls = <<[call_id |-> 1, caller_id |-> 0, is_root |-> TRUE,
                  is_success |-> TRUE, is_persistent |-> TRUE,
                  rw_counter_end_of_reversion |-> 0, depth |-> 1,
                  caller_address |-> SenderOf(1), address |-> AddressOf(1)]>>
    /\ frame_state = <<"Active">>
    /\ steps = <<ExecStep_new("CALLER", 0, NewCallContext(1), 1, 0)>>
    /\ reversion_groups = <<>>
    /\ sdb = [k \in Keys |-> 0]
    /\ committed = [k \in Keys |-> 0]
    /\ tx_id = 1
    /\ phase = "running"
    /\ last_ref = <<>>
    /\ copy_events = <<>>
    /\ padded = NoPadding
    /\ geth_trace = <<>>
    /\ witness = <<>>

\* The accesses a handler may push.
PushInputs ==
    {<<"READ", CallContextOp(1, "CallerAddress", SenderOf(1))>>,
     <<"WRITE", StackOp(1, STACK_CAPACITY - 1, SenderOf(1))>>,
     <<"READ", MemoryOp(1, 0, 0)>>,
     <<"WRITE", StorageOp(AddressOf(1), 0, 1, 0, 1, 0)>>}

PushOp(rw, op) ==
    /\ Len(AllRows(container)) < MaxPushes
    /\ LET b == push_op(Builder(steps[Len(steps)]), rw, op)
       IN  /\ rwc' = b.rwc
           /\ container' = b.container
           /\ steps' = [steps EXCEPT ![Len(steps)] = b.step]
           /\ last_ref' = b.ref
    /\ UNCHANGED <<calls, frame_state, call_stack, reversion_groups, sdb,
                   committed, tx_id, phase, copy_events, padded,
                   geth_trace, witness>>

PushNewStep ==
    /\ Len(steps) < MaxSteps
    /\ steps' = Append(steps, new_step("CALLER"))
    /\ UNCHANGED <<rwc, container, calls, frame_state, call_stack,
                   reversion_groups, sdb, committed, tx_id, phase, last_ref,
                   copy_events, padded,
                   geth_trace, witness>>

NextPush ==
    \/ \E in \in PushInputs : PushOp(in[1], in[2])
    \/ PushNewStep

SpecPush == InitPush /\ [][NextPush]_vars

(***************************************************************************)
(* The copy opcodes: a root frame that stored two bytes of call data in    *)
(* its memory and called the contract; the frames then run copy opcodes.   *)
(***************************************************************************)
CopyOpcodes == {"CALLDATACOPY", "CODECOPY", "RETURN", "LOG0", "SHA3"}

\* Call data of the internal call (at offset 0 of the caller's memory) and
\* the return data window the caller asked for.
CallDataLength == 2
CallerMemory == <<5, 6>>
ReturnDataOffset == 1
ReturnDataLength == 2
Sha3Hash == 1

Min(a, b) == IF a < b THEN a ELSE b

\* Memory after the bytes are stored from addr on, grown with zeros.
write_memory(memory, addr, bytes) ==
    LET n == IF Len(bytes) = 0 THEN Len(memory)
             ELSE IF addr + Len(bytes) > Len(memory)
                  THEN addr + Len(bytes) ELSE Len(memory)
    IN  [a \in 1..n |->
            IF a - 1 >= addr /\ a - 1 < addr + Len(bytes)
            THEN bytes[a - addr]
            ELSE IF a <= Len(memory) THEN memory[a] ELSE 0]

\* The stack operands of a copy opcode, top of the stack first.
copy_operands(opcode, src_addr, length) ==
    IF opcode \in {"CALLDATACOPY", "CODECOPY"}
    THEN <<0, src_addr, length>>
    ELSE <<src_addr, length>>

RECURSIVE push_stack_reads(_, _, _)
push_stack_reads(b, operands, i) ==
    IF i > Len(operands) THEN b
    ELSE push_stack_reads(
             push_stack_op(b, "READ",
                           STACK_CAPACITY - Len(operands) + (i - 1),
                           operands[i]),
             operands, i + 1)

\* The accesses of the handler that precede the copy: the stack reads of the
\* operands and, for RETURN, the six call-context reads.
copy_pre_ops(b, opcode, src_addr, length) ==
    LET call == b.calls[b.ctx.index]
        caller_id == IF call.is_root THEN 0
                     ELSE b.calls[call.caller_id].call_id
        b1 == push_stack_reads(b, copy_operands(opcode, src_addr, length), 1)
        cc(bb, f, v) == push_op(bb, "READ", CallContextOp(call.call_id, f, v))
    IN  IF opcode # "RETURN" THEN b1
        ELSE cc(cc(cc(cc(cc(cc(b1, "IsRoot", 0), "IsCreate", 0),
                         "IsSuccess", 1), "CallerId", caller_id),
                   "ReturnDataOffset", ReturnDataOffset),
                "ReturnDataLength", ReturnDataLength)

\* The accesses of the handler that follow the copy: SHA3 pushes the hash.
copy_post_ops(b, opcode) ==
    IF opcode = "SHA3"
    THEN push_stack_op(b, "WRITE", STACK_CAPACITY - 1, Sha3Hash)
    ELSE b

\* The copy event an opcode describes.
copy_event_of(b, opcode, src_addr, length) ==
    LET call == b.calls[b.ctx.index]
        caller == IF call.is_root THEN call ELSE b.calls[call.caller_id]
        n == Min(ReturnDataLength, length)
    IN  CASE opcode = "CALLDATACOPY" ->
                 IF call.is_root
                 THEN CopyEvent("TxCalldata", tx_id, src_addr, Len(CallData),
                                "Memory", call.call_id, 0, 0, length)
                 ELSE CopyEvent("Memory", caller.call_id, src_addr,
                                CallDataLength, "Memory", call.call_id, 0, 0,
                                length)
          [] opcode = "CODECOPY" ->
                 CopyEvent("Bytecode", CodeHash, src_addr, Len(Code),
                           "Memory", call.call_id, 0, 0, length)
          [] opcode = "RETURN" ->
                 CopyEvent("Memory", call.call_id, src_addr, src_addr + n,
                           "Memory", caller.call_id, ReturnDataOffset, 0, n)
          [] opcode = "LOG0" ->
                 CopyEvent("Memory", call.call_id, src_addr,
                           src_addr + length, "TxLog", tx_id, 0, 0, length)
          [] opcode = "SHA3" ->
                 CopyEvent("Memory", call.call_id, src_addr,
                           src_addr + length, "RlcAcc", call.call_id, 0, 0,
                           length)

\* The memory an event reads from: the caller's for the call data of an
\* internal call, the frame's own otherwise.
copy_src_memory(opcode) ==
    IF opcode = "CALLDATACOPY" /\ Len(call_stack) > 1
    THEN call_stack[Len(call_stack) - 1].memory
    ELSE call_stack[Len(call_stack)].memory

\* The bytes an event wrote, in order.
written_bytes(ev) == [i \in 1..ev.length |-> ev.steps[2 * i].value]

\* The handler of a copy opcode: operands, copy event, trailing accesses.
copy_gen_associated_ops(b, opcode, src_addr, length) ==
    LET b1 == copy_pre_ops(b, opcode, src_addr, length)
        r == gen_copy_event(b1, copy_event_of(b, opcode, src_addr, length),
                            copy_src_memory(opcode))
    IN  [b |-> copy_post_ops(r.b, opcode), event |-> r.event]

InitCopy ==
    LET root == [call_id |-> 1, caller_id |-> 0, is_root |-> TRUE,
                 is_success |-> TRUE, is_persistent |-> TRUE,
                 rw_counter_end_of_reversion |-> 0, depth |-> 1,
                 caller_address |-> SenderOf(1), address |-> AddressOf(1)]
        ctx0 == NewCallContext(1)
        mk(step, ctx, cs, r, c, ref) ==
            [rwc |-> r, container |-> c, step |-> step, ref |-> ref,
             ctx |-> ctx, calls |-> cs, groups |-> <<>>,
             sdb |-> [k \in Keys |-> 0]]
        b0 == push_op(mk(ExecStep_new("BeginTx", 0, ctx0, 1, 0), ctx0,
                         <<root>>, 1, [t \in Targets |-> <<>>], <<>>),
                      "WRITE", CallContextOp(1, "IsPersistent", 1))
        store(b, a) ==
            LET ctx == [ctx0 EXCEPT !.memory = SubSeq(CallerMemory, 1, a)]
                s0 == mk(ExecStep_new("MSTORE8", 2, ctx, b.rwc, 0), ctx,
                         <<root>>, b.rwc, b.container, b.ref)
                s1 == push_stack_op(s0, "READ", STACK_CAPACITY - 2, a)
                s2 == push_stack_op(s1, "READ", STACK_CAPACITY - 1,
                                    CallerMemory[a + 1])
            IN  push_memory_op(s2, "WRITE", a, CallerMemory[a + 1])
        m1 == store(b0, 0)
        m2 == store(m1, 1)
        ctx1 == [ctx0 EXCEPT !.memory = CallerMemory]
        callee == [call_id |-> m2.rwc, caller_id |-> 1, is_root |-> FALSE,
                   is_success |-> TRUE, is_persistent |-> TRUE,
                   rw_counter_end_of_reversion |-> 0, depth |-> 2,
                   caller_address |-> AddressOf(1), address |-> AddressOf(2)]
        c0 == push_op(mk(ExecStep_new("CALL", 0, ctx1, m2.rwc, 0), ctx1,
                         <<root, callee>>, m2.rwc, m2.container, m2.ref),
                      "WRITE", CallContextOp(callee.call_id, "IsPersistent", 1))
    IN  /\ rwc = c0.rwc
        /\ container = c0.container
        /\ steps = <<b0.step, m1.step, m2.step, c0.step>>
        /\ calls = <<root, callee>>
        /\ frame_state = <<"Active", "Active">>
        /\ call_stack = <<ctx1, NewCallContext(2)>>
        /\ reversion_groups = <<>>
        /\ sdb = [k \in Keys |-> 0]
        /\ committed = [k \in Keys |-> 0]
        /\ tx_id = 1
        /\ phase = "running"
        /\ last_ref = c0.ref
        /\ copy_events = <<>>
        /\ padded = NoPadding
        /\ geth_trace = <<>>
        /\ witness = <<>>

\* The copy opcodes handled so far.
CopyOps ==
    Cardinality({n \in 1..Len(steps) : steps[n].exec_state \in CopyOpcodes})

\* One copy opcode of the current frame.  RETURN of a call leaves the frame
\* and records an event only when the returned range is not empty.
CopyOp(opcode, src_addr, length) ==
    /\ CopyOps < MaxCopies
    /\ opcode = "RETURN" => Len(call_stack) > 1
    /\ LET n == Len(call_stack)
           r == copy_gen_associated_ops(Builder(new_step(opcode)), opcode,
                                        src_addr, length)
           ev == r.event
           own == IF ev.dst_type = "Memory" /\ opcode # "RETURN"
                  THEN write_memory(CurCtx.memory, ev.dst_addr,
                                    written_bytes(ev))
                  ELSE CurCtx.memory
       IN  /\ rwc' = r.b.rwc
           /\ container' = r.b.container
           /\ steps' = Append(steps, r.b.step)
           /\ last_ref' = r.b.ref
           /\ copy_events' = IF opcode = "RETURN" /\ ev.length = 0
                             THEN copy_events
                             ELSE Append(copy_events, ev)
           /\ call_stack' =
                  IF opcode = "RETURN"
                  THEN [SubSeq(call_stack, 1, n - 1) EXCEPT
                            ![n - 1].memory =
                                write_memory(@, ev.dst_addr,
                                             written_bytes(ev))]
                  ELSE [call_stack EXCEPT ![n].memory = own]
           /\ frame_state' =
                  IF opcode = "RETURN"
                  THEN [frame_state EXCEPT ![CurCtx.index] = "Returned"]
                  ELSE frame_state
    /\ UNCHANGED <<calls, reversion_groups, sdb, committed, tx_id, phase,
                   padded,
                   geth_trace, witness>>

NextCopy ==
    \E opcode \in CopyOpcodes, src_addr \in 0..1, length \in 0..MaxCopyLen :
        CopyOp(opcode, src_addr, length)

SpecCopy == InitCopy /\ [][NextCopy]_vars

(***************************************************************************)
(* Padding of the RW table (witness/rw.rs) for the EVM circuit.            *)
(***************************************************************************)
\* Rw::Start and Rw::Padding rows: a counter and nothing else.
RwStart(rw_counter) ==
    [rwc |-> rw_counter, rw |-> "READ", target |-> "Start", id |-> 0,
     address |-> 0, field |-> "None", key |-> 0, value |-> 0,
     value_prev |-> 0, committed_value |-> 0, reversible |-> FALSE]

RwPadding(rw_counter) ==
    [rwc |-> rw_counter, rw |-> "READ", target |-> "Padding", id |-> 0,
     address |-> 0, field |-> "None", key |-> 0, value |-> 0,
     value_prev |-> 0, committed_value |-> 0, reversible |-> FALSE]

\* padding_len that takes a target of zero for too small as well.
padding_len_strict(rows_len, target_len) ==
    IF target_len >= rows_len
    THEN [ok |-> TRUE, len |-> target_len - rows_len]
    ELSE [ok |-> FALSE, len |-> 0]

\* RwMap::padding_len: the number of rows to add; panics (ok is FALSE) when
\* the target is too small and is not 0, the "auto" mode.
padding_len(rows_len, target_len) ==
    IF target_len >= rows_len
    THEN [ok |-> TRUE, len |-> target_len - rows_len]
    ELSE IF target_len # 0 THEN [ok |-> FALSE, len |-> 0]
         ELSE [ok |-> TRUE, len |-> 0]

\* The first count Padding rows with counters from the given one on that no
\* row has yet.
RECURSIVE padding_rows(_, _, _)
padding_rows(from, padding_exist, count) ==
    IF count = 0 THEN <<>>
    ELSE IF from \in padding_exist
         THEN padding_rows(from + 1, padding_exist, count)
         ELSE <<RwPadding(from)>>
              \o padding_rows(from + 1, padding_exist, count - 1)

\* Iterator::take.
take(seq, n) == SubSeq(seq, 1, IF n < Len(seq) THEN n ELSE Len(seq))

\* usize::saturating_sub.
saturating_sub(a, b) == IF a > b THEN a - b ELSE 0

\* table_assignments_padding that counts the rows again from the Start row.
table_assignments_padding_renumber(rows, target_len, padding_start_rw) ==
    LET rows_trimmed == SelectSeq(rows, LAMBDA rw : rw.target # "Start")
        l == padding_len(Len(rows_trimmed), target_len)
        renumbered == [i \in 1..Len(rows_trimmed) |->
                          [rows_trimmed[i] EXCEPT !.rwc = i + 1]]
    IN  [called |-> TRUE, ok |-> l.ok, target_len |-> target_len,
         input |-> rows,
         rows |-> IF l.ok
                  THEN take(<<RwStart(1)>> \o renumbered
                            \o padding_rows(Len(rows_trimmed) + 2, {},
                                            target_len),
                            target_len)
                  ELSE <<>>,
         padding_length |-> saturating_sub(l.len, 1)]

\* RwMap::table_assignments_padding: the Start row (padding_start_rw, or
\* the one with counter 1 when the option is empty), the rows that are not Start
\* rows, then Padding rows with fresh counters, cut at target_len rows.
table_assignments_padding(rows, target_len, padding_start_rw) ==
    LET padding_exist == {rows[i].rwc : i \in {j \in 1..Len(rows) :
                                                  rows[j].target = "Padding"}}
        rows_trimmed == SelectSeq(rows, LAMBDA rw : rw.target # "Start")
        l == padding_len(Len(rows_trimmed), target_len)
        padding_length == saturating_sub(l.len, 1)
        start_padding_rw_counter == Len(rows_trimmed) + 1
        start == IF padding_start_rw = <<>> THEN RwStart(1)
                 ELSE padding_start_rw[1]
    IN  [called |-> TRUE, ok |-> l.ok, target_len |-> target_len,
         input |-> rows,
         rows |-> IF l.ok
                  THEN take(<<start>> \o rows_trimmed
                            \o padding_rows(start_padding_rw_counter,
                                            padding_exist, target_len),
                            target_len)
                  ELSE <<>>,
         padding_length |-> padding_length]

\* EvmCircuit::synthesize_sub: pad the chronological rows of the block to
\* max_rws rows; the block has no previous chunk.
Pad(max_rws) ==
    /\ padded' = table_assignments_padding(table_assignments(container, TRUE),
                                           max_rws, <<>>)
    /\ UNCHANGED <<rwc, container, steps, calls, frame_state, call_stack,
                   reversion_groups, sdb, committed, tx_id, phase, last_ref,
                   copy_events, geth_trace, witness>>

NextPad ==
    \/ \E in \in PushInputs : PushOp(in[1], in[2])
    \/ \E max_rws \in 0..(MaxPushes + 2) : Pad(max_rws)

SpecPad == InitPush /\ [][NextPad]_vars

(***************************************************************************)
(* Memory opcodes: a root frame that pushes words, stores bytes and loads  *)
(* words.  The trace of an MLOAD reports the memory either grown to hold   *)
(* the word or as it was.                                                  *)
(***************************************************************************)
PushVals == {0, 7, 31}

\* The state after BeginTx of a successful transaction.
InitMem ==
    LET root == [call_id |-> 1, caller_id |-> 0, is_root |-> TRUE,
                 is_success |-> TRUE, is_persistent |-> TRUE,
                 rw_counter_end_of_reversion |-> 0, depth |-> 1,
                 caller_address |-> SenderOf(1), address |-> AddressOf(1)]
        ctx0 == NewCallContext(1)
        b0 == push_op([rwc |-> 1, container |-> [t \in Targets |-> <<>>],
                       step |-> ExecStep_new("BeginTx", 0, ctx0, 1, 0),
                       ref |-> <<>>, ctx |-> ctx0, calls |-> <<root>>,
                       groups |-> <<>>, sdb |-> [k \in Keys |-> 0]],
                      "WRITE", CallContextOp(1, "IsPersistent", 1))
    IN  /\ rwc = b0.rwc
        /\ container = b0.container
        /\ steps = <<b0.step>>
        /\ calls = <<root>>
        /\ frame_state = <<"Active">>
        /\ call_stack = <<ctx0>>
        /\ reversion_groups = <<>>
        /\ sdb = [k \in Keys |-> 0]
        /\ committed = [k \in Keys |-> 0]
        /\ tx_id = 1
        /\ phase = "running"
        /\ last_ref = b0.ref
        /\ copy_events = <<>>
        /\ padded = NoPadding
        /\ geth_trace = <<>>
        /\ witness = <<>>

\* PUSH1: a stack write of the immediate one slot below the top.
Push1_gen_associated_ops(b, stack, value) ==
    push_stack_op(b, "WRITE", last_filled(stack) - 1, value)

\* MSTORE8: stack reads of the offset and the value, a memory write of the
\* value's low byte.
Mstore8_gen_associated_ops(b, stack) ==
    LET offset == stack[Len(stack)]
        value == stack[Len(stack) - 1]
        b1 == push_stack_op(b, "READ", last_filled(stack), offset)
        b2 == push_stack_op(b1, "READ", last_filled(stack) + 1, value)
    IN  push_memory_op(b2, "WRITE", offset, value % 256)

\* The memory opcodes handled so far; the pushes between them are bounded
\* by the stack.
MemOps ==
    Cardinality({n \in 1..Len(steps) :
                    steps[n].exec_state \in {"MSTORE8", "MLOAD"}})

MemRunning == phase = "running" /\ MemOps < MaxSteps - 2

Push1(value) ==
    /\ MemRunning
    /\ Len(CurCtx.stack) < MaxStack
    /\ Commit(Push1_gen_associated_ops(Builder(new_step("PUSH1")),
                                       CurCtx.stack, value),
              Append(CurCtx.stack, value), CurCtx.memory)
    /\ UNCHANGED <<frame_state, committed, tx_id, phase, copy_events, padded,
                   geth_trace, witness>>

Mstore8 ==
    /\ MemRunning
    /\ Len(CurCtx.stack) >= 2
    /\ LET stack == CurCtx.stack
           offset == stack[Len(stack)]
           value == stack[Len(stack) - 1]
           grown == expand_memory(CurCtx.memory,
                                  IF offset >= N_BYTES_WORD - 1
                                  THEN offset - (N_BYTES_WORD - 1) ELSE 0)
       IN  Commit(Mstore8_gen_associated_ops(Builder(new_step("MSTORE8")),
                                             stack),
                  SubSeq(stack, 1, Len(stack) - 2),
                  [grown EXCEPT ![offset + 1] = value % 256])
    /\ UNCHANGED <<frame_state, committed, tx_id, phase, copy_events, padded,
                   geth_trace, witness>>

\* The word at addr is below 2^24: its 29 leading bytes are zero.
WordFits(memory, addr) ==
    \A a \in (addr + 1)..(addr + N_BYTES_WORD - 3) :
        a <= Len(memory) => memory[a] = 0

\* MLOAD whose trace reports the next step's memory grown to hold the word
\* (expanded) or as it was before the load.
MloadTrace(expanded) ==
    /\ MemRunning
    /\ Len(CurCtx.stack) > 0
    /\ LET stack == CurCtx.stack
           addr == stack[Len(stack)]
           memory == expand_memory(CurCtx.memory, addr)
           next_memory == IF expanded THEN memory ELSE CurCtx.memory
           b == Mload_gen_associated_ops(Builder(new_step("MLOAD")),
                                         stack, next_memory)
           r == read_word(next_memory, addr)
       IN  /\ WordFits(memory, addr)
           /\ Commit(b, [stack EXCEPT ![Len(stack)] =
                                          IF r.ok THEN r.word ELSE 0],
                     memory)
    /\ UNCHANGED <<frame_state, committed, tx_id, phase, copy_events, padded,
                   geth_trace, witness>>

NextMem ==
    \/ \E value \in PushVals : Push1(value)
    \/ Mstore8
    \/ \E expanded \in BOOLEAN : MloadTrace(expanded)

SpecMem == InitMem /\ [][NextMem]_vars

(***************************************************************************)
(* Steps built from trace steps, and the gadgets of SELFBALANCE and NOT    *)
(* that constrain them.  A word of this part is one byte wide: the 31      *)
(* leading bytes of every word are taken to be zero before NOT and are     *)
(* not modelled after it.                                                  *)
(***************************************************************************)
TxGas == 1000
SelfBalance == 9

\* The bytes an opcode takes in the bytecode: PUSH1 carries one data byte.
opcode_size(op) == IF op = "PUSH1" THEN 2 ELSE 1

\* The words a memory of the given length takes.
memory_word_size(len) == (len + N_BYTES_WORD - 1) \div N_BYTES_WORD

\* The gas the trace reports for a step: the constant cost of the opcode
\* and, for MSTORE8, three gas for every word the memory grows by.
trace_gas_cost(op, memory, next_memory) ==
    (CASE op = "SELFBALANCE" -> 5
       [] op = "SSTORE" -> 100
       [] OTHER -> 3)
        + 3 * (memory_word_size(Len(next_memory))
               - memory_word_size(Len(memory)))

\* ExecStep::new that takes the gas left for the gas cost.
ExecStep_from_trace_gas_left_twice(step, call_ctx, cur_rwc, reversible_write_counter, log_id) ==
    [exec_state |-> step.op,
     pc |-> step.pc,
     stack_size |-> Len(step.stack),
     memory_size |-> Len(call_ctx.memory),
     gas_left |-> step.gas,
     gas_cost |-> step.gas,
     gas_refund |-> 0,
     call_index |-> call_ctx.index,
     rwc |-> cur_rwc,
     reversible_write_counter |-> reversible_write_counter,
     log_id |-> log_id,
     bus_mapping_instance |-> <<>>,
     error |-> "None"]

\* ExecStep::new with every field of the step: the fields of the trace step
\* are copied, the memory size is that of the call context.
ExecStep_from_trace(step, call_ctx, cur_rwc, reversible_write_counter, log_id) ==
    [exec_state |-> step.op,
     pc |-> step.pc,
     stack_size |-> Len(step.stack),
     memory_size |-> Len(call_ctx.memory),
     gas_left |-> step.gas,
     gas_cost |-> step.gas_cost,
     gas_refund |-> 0,
     call_index |-> call_ctx.index,
     rwc |-> cur_rwc,
     reversible_write_counter |-> reversible_write_counter,
     log_id |-> log_id,
     bus_mapping_instance |-> <<>>,
     error |-> "None"]

\* The trace step of the next opcode of the current call: the program
\* counter and the gas follow from the step before it.
GethExecStep(op, next_memory) ==
    LET last == steps[Len(steps)]
        first == last.exec_state = "BeginTx"
    IN  [op |-> op,
         pc |-> IF first THEN 0 ELSE last.pc + opcode_size(last.exec_state),
         stack |-> CurCtx.stack,
         memory |-> CurCtx.memory,
         gas |-> IF first THEN TxGas ELSE last.gas_left - last.gas_cost,
         gas_cost |-> trace_gas_cost(op, CurCtx.memory, next_memory)]

\* CircuitInputStateRef::new_step for a trace step.
new_step_from_trace(geth_step) ==
    ExecStep_from_trace(geth_step, CurCtx, rwc,
                        CurCtx.reversible_write_counter, 0)

\* The state after the BeginTx step of the root call.
InitStep ==
    LET root == [call_id |-> 1, caller_id |-> 0, is_root |-> TRUE,
                 is_success |-> TRUE, is_persistent |-> TRUE,
                 rw_counter_end_of_reversion |-> 0, depth |-> 1,
                 caller_address |-> SenderOf(1), address |-> AddressOf(1)]
        ctx0 == NewCallContext(1)
        begin == [exec_state |-> "BeginTx", pc |-> 0, stack_size |-> 0,
                  memory_size |-> 0, gas_left |-> TxGas, gas_cost |-> 0,
                  gas_refund |-> 0, call_index |-> 1, rwc |-> 1,
                  reversible_write_counter |-> 0, log_id |-> 0,
                  bus_mapping_instance |-> <<>>, error |-> "None"]
        b0 == push_op([rwc |-> 1, container |-> [t \in Targets |-> <<>>],
                       step |-> begin, ref |-> <<>>, ctx |-> ctx0,
                       calls |-> <<root>>, groups |-> <<>>,
                       sdb |-> [k \in Keys |-> 0]],
                      "WRITE", CallContextOp(1, "IsPersistent", 1))
    IN  /\ rwc = b0.rwc
        /\ container = b0.container
        /\ steps = <<b0.step>>
        /\ calls = <<root>>
        /\ frame_state = <<"Active">>
        /\ call_stack = <<ctx0>>
        /\ reversion_groups = <<>>
        /\ sdb = [k \in Keys |-> 0]
        /\ committed = [k \in Keys |-> 0]
        /\ tx_id = 1
        /\ phase = "running"
        /\ last_ref = b0.ref
        /\ copy_events = <<>>
        /\ padded = NoPadding
        /\ geth_trace = <<>>
        /\ witness = <<>>

\* SELFBALANCE handler that reads the account before the call context.
Selfbalance_account_first(b, stack) ==
    LET call == b.calls[b.ctx.index]
        b1 == push_op(b, "READ",
                      AccountOp(call.address, "Balance", SelfBalance,
                                SelfBalance))
        b2 == push_op(b1, "READ",
                      CallContextOp(call.call_id, "CalleeAddress",
                                    call.address))
    IN  push_stack_op(b2, "WRITE", last_filled(stack) - 1, SelfBalance)

\* SELFBALANCE: the callee address of the call, the balance of that
\* account, and the push of the balance.
Selfbalance_gen_associated_ops(b, stack) ==
    LET call == b.calls[b.ctx.index]
        b1 == push_op(b, "READ",
                      CallContextOp(call.call_id, "CalleeAddress",
                                    call.address))
        b2 == push_op(b1, "READ",
                      AccountOp(call.address, "Balance", SelfBalance,
                                SelfBalance))
    IN  push_stack_op(b2, "WRITE", last_filled(stack) - 1, SelfBalance)

\* NOT handler that pushes the result one slot below the operand.
Not_push_below(b, stack, next_stack) ==
    LET b1 == push_stack_op(b, "READ", last_filled(stack),
                            stack[Len(stack)])
    IN  push_stack_op(b1, "WRITE", last_filled(stack) - 1,
                      next_stack[Len(next_stack)])

\* NOT: the pop of the operand and the push of the result the trace
\* reports, at the same stack address.
Not_gen_associated_ops(b, stack, next_stack) ==
    LET b1 == push_stack_op(b, "READ", last_filled(stack),
                            stack[Len(stack)])
    IN  push_stack_op(b1, "WRITE", last_filled(next_stack),
                      next_stack[Len(next_stack)])

\* An MSTORE8 takes two pushes before it: one step more than the bound.
StepRunning == phase = "running" /\ OpSteps < MaxSteps + 1

StepPush1(value) ==
    /\ StepRunning
    /\ Len(CurCtx.stack) < MaxStack
    /\ LET g == GethExecStep("PUSH1", CurCtx.memory)
       IN  Commit(Push1_gen_associated_ops(Builder(new_step_from_trace(g)),
                                           CurCtx.stack, value),
                  Append(CurCtx.stack, value), CurCtx.memory)
    /\ UNCHANGED <<frame_state, committed, tx_id, phase, copy_events, padded,
                   geth_trace, witness>>

StepMstore8 ==
    /\ StepRunning
    /\ Len(CurCtx.stack) >= 2
    /\ LET stack == CurCtx.stack
           offset == stack[Len(stack)]
           value == stack[Len(stack) - 1]
           grown == expand_memory(CurCtx.memory,
                                  IF offset >= N_BYTES_WORD - 1
                                  THEN offset - (N_BYTES_WORD - 1) ELSE 0)
           g == GethExecStep("MSTORE8", grown)
       IN  Commit(Mstore8_gen_associated_ops(
                      Builder(new_step_from_trace(g)), stack),
                  SubSeq(stack, 1, Len(stack) - 2),
                  [grown EXCEPT ![offset + 1] = value % 256])
    /\ UNCHANGED <<frame_state, committed, tx_id, phase, copy_events, padded,
                   geth_trace, witness>>

StepSelfbalance ==
    /\ StepRunning
    /\ Len(CurCtx.stack) < MaxStack
    /\ LET g == GethExecStep("SELFBALANCE", CurCtx.memory)
       IN  Commit(Selfbalance_gen_associated_ops(
                      Builder(new_step_from_trace(g)), CurCtx.stack),
                  Append(CurCtx.stack, SelfBalance), CurCtx.memory)
    /\ UNCHANGED <<frame_state, committed, tx_id, phase, copy_events, padded,
                   geth_trace, witness>>

\* NOT: the trace reports the complement of the operand on the next stack.
StepNot ==
    /\ StepRunning
    /\ Len(CurCtx.stack) > 0
    /\ LET stack == CurCtx.stack
           next_stack == [stack EXCEPT ![Len(stack)] = WordMax - @]
           g == GethExecStep("NOT", CurCtx.memory)
       IN  Commit(Not_gen_associated_ops(Builder(new_step_from_trace(g)),
                                         stack, next_stack),
                  next_stack, CurCtx.memory)
    /\ UNCHANGED <<frame_state, committed, tx_id, phase, copy_events, padded,
                   geth_trace, witness>>

\* SSTORE of the one key: a reversible write of the call.
StepSstore(value) ==
    /\ StepRunning
    /\ LET g == GethExecStep("SSTORE", CurCtx.memory)
       IN  Commit(Sstore_gen_associated_ops(Builder(new_step_from_trace(g)),
                                            0, value),
                  CurCtx.stack, CurCtx.memory)
    /\ UNCHANGED <<frame_state, committed, tx_id, phase, copy_events, padded,
                   geth_trace, witness>>

NextStep ==
    \/ \E value \in PushVals : StepPush1(value)
    \/ \E value \in Vals : StepSstore(value)
    \/ StepMstore8
    \/ StepSelfbalance
    \/ StepNot

SpecStep == InitStep /\ [][NextStep]_vars

(***************************************************************************)
(* From the trace to the assigned circuit: the names of the trace are      *)
(* parsed, every step is handled, the steps are converted to the witness   *)
(* and the witness steps are assigned to their gadgets.                    *)
(***************************************************************************)
\* The names FromStr for OpcodeId knows.
OpcodeNames ==
    {"STOP", "ADD", "MUL", "SUB", "DIV", "SDIV", "MOD", "SMOD", "ADDMOD",
     "MULMOD", "EXP", "SIGNEXTEND", "LT", "GT", "SLT", "SGT", "EQ",
     "ISZERO", "AND", "OR", "XOR", "NOT", "BYTE", "CALLDATALOAD",
     "CALLDATASIZE", "CALLDATACOPY", "CODESIZE", "CODECOPY", "SHL", "SHR",
     "SAR", "POP", "MLOAD", "MSTORE", "MSTORE8", "JUMP", "JUMPI", "PC",
     "MSIZE", "JUMPDEST", "PUSH1", "PUSH2", "PUSH3", "PUSH4", "PUSH5",
     "PUSH6", "PUSH7", "PUSH8", "PUSH9", "PUSH10", "PUSH11", "PUSH12",
     "PUSH13", "PUSH14", "PUSH15", "PUSH16", "PUSH17", "PUSH18", "PUSH19",
     "PUSH20", "PUSH21", "PUSH22", "PUSH23", "PUSH24", "PUSH25", "PUSH26",
     "PUSH27", "PUSH28", "PUSH29", "PUSH30", "PUSH31", "PUSH32", "DUP1",
     "DUP2", "DUP3", "DUP4", "DUP5", "DUP6", "DUP7", "DUP8", "DUP9",
     "DUP10", "DUP11", "DUP12", "DUP13", "DUP14", "DUP15", "DUP16",
     "SWAP1", "SWAP2", "SWAP3", "SWAP4", "SWAP5", "SWAP6", "SWAP7",
     "SWAP8", "SWAP9", "SWAP10", "SWAP11", "SWAP12", "SWAP13", "SWAP14",
     "SWAP15", "SWAP16", "RETURN", "REVERT", "INVALID", "SHA3", "ADDRESS",
     "BALANCE", "SELFBALANCE", "ORIGIN", "CALLER", "CALLVALUE",
     "GASPRICE", "EXTCODESIZE", "EXTCODECOPY", "EXTCODEHASH",
     "RETURNDATASIZE", "RETURNDATACOPY", "BLOCKHASH", "COINBASE",
     "TIMESTAMP", "NUMBER", "DIFFICULTY", "GASLIMIT", "SLOAD", "SSTORE",
     "GAS", "LOG0", "LOG1", "LOG2", "LOG3", "LOG4", "CREATE", "CREATE2",
     "CALL", "CALLCODE", "DELEGATECALL", "STATICCALL", "SELFDESTRUCT",
     "CHAINID", "BASEFEE"}

\* OpcodeId::from_str: the opcode of a name, or the error OpcodeParsing.
OpcodeId_from_str(s) ==
    IF s \in OpcodeNames THEN [ok |-> TRUE, op |-> s, err |-> "None"]
    ELSE [ok |-> FALSE, op |-> "None", err |-> "OpcodeParsing"]

\* OpcodeId::is_dup, is_push and is_swap.
is_dup(op) ==
    op \in {"DUP1", "DUP2", "DUP3", "DUP4", "DUP5", "DUP6", "DUP7", "DUP8",
         "DUP9", "DUP10", "DUP11", "DUP12", "DUP13", "DUP14", "DUP15",
         "DUP16"}

is_push(op) ==
    op \in {"PUSH1", "PUSH2", "PUSH3", "PUSH4", "PUSH5", "PUSH6", "PUSH7",
         "PUSH8", "PUSH9", "PUSH10", "PUSH11", "PUSH12", "PUSH13", "PUSH14",
         "PUSH15", "PUSH16", "PUSH17", "PUSH18", "PUSH19", "PUSH20",
         "PUSH21", "PUSH22", "PUSH23", "PUSH24", "PUSH25", "PUSH26",
         "PUSH27", "PUSH28", "PUSH29", "PUSH30", "PUSH31", "PUSH32"}

is_swap(op) ==
    op \in {"SWAP1", "SWAP2", "SWAP3", "SWAP4", "SWAP5", "SWAP6", "SWAP7",
         "SWAP8", "SWAP9", "SWAP10", "SWAP11", "SWAP12", "SWAP13", "SWAP14",
         "SWAP15", "SWAP16"}

\* The arms of the match of From<&ExecStep> for ExecutionState.
ExecutionStateOf ==
    [ADD |-> "ADD", MUL |-> "MUL", SUB |-> "ADD", EQ |-> "CMP", LT |-> "CMP",
     GT |-> "CMP", SLT |-> "SCMP", SGT |-> "SCMP",
     SIGNEXTEND |-> "SIGNEXTEND", STOP |-> "STOP", AND |-> "BITWISE",
     XOR |-> "BITWISE", OR |-> "BITWISE", POP |-> "POP", PUSH32 |-> "PUSH",
     BYTE |-> "BYTE", MLOAD |-> "MEMORY", MSTORE |-> "MEMORY",
     MSTORE8 |-> "MEMORY", JUMPDEST |-> "JUMPDEST", JUMP |-> "JUMP",
     JUMPI |-> "JUMPI", PC |-> "PC", MSIZE |-> "MSIZE",
     COINBASE |-> "COINBASE", TIMESTAMP |-> "TIMESTAMP", GAS |-> "GAS"]

\* The opcodes the conversion has an execution state for.
HasExecutionState(op) ==
    is_dup(op) \/ is_push(op) \/ is_swap(op) \/ op \in DOMAIN ExecutionStateOf

\* From<&ExecStep> for ExecutionState with STOP as the arm of every other
\* opcode.
ExecutionState_from_default(step, debug_assertions) ==
    IF debug_assertions /\ step.error # "None"
    THEN [ok |-> FALSE, state |-> "None"]
    ELSE IF is_dup(step.exec_state) THEN [ok |-> TRUE, state |-> "DUP"]
    ELSE IF is_push(step.exec_state) THEN [ok |-> TRUE, state |-> "PUSH"]
    ELSE IF is_swap(step.exec_state) THEN [ok |-> TRUE, state |-> "SWAP"]
    ELSE IF step.exec_state \in DOMAIN ExecutionStateOf
    THEN [ok |-> TRUE, state |-> ExecutionStateOf[step.exec_state]]
    ELSE [ok |-> TRUE, state |-> "STOP"]

\* From<&ExecStep> for ExecutionState: the debug assertion that the step has
\* no error, the three opcode families, the match, and unimplemented!() for
\* every other opcode (ok is FALSE for a panic).
ExecutionState_from(step, debug_assertions) ==
    IF debug_assertions /\ step.error # "None"
    THEN [ok |-> FALSE, state |-> "None"]
    ELSE IF is_dup(step.exec_state) THEN [ok |-> TRUE, state |-> "DUP"]
    ELSE IF is_push(step.exec_state) THEN [ok |-> TRUE, state |-> "PUSH"]
    ELSE IF is_swap(step.exec_state) THEN [ok |-> TRUE, state |-> "SWAP"]
    ELSE IF step.exec_state \in DOMAIN ExecutionStateOf
    THEN [ok |-> TRUE, state |-> ExecutionStateOf[step.exec_state]]
    ELSE [ok |-> FALSE, state |-> "None"]

\* The execution states assign_exec_step has a gadget for.
GadgetStates ==
    {"BeginTx", "CopyCodeToMemory", "CopyToLog", "CopyToMemory", "EndTx",
     "EndBlock", "ADD_SUB", "BITWISE", "BYTE", "CALL", "CALLDATACOPY",
     "CALLDATALOAD", "CALLDATASIZE", "CALLER", "CALLVALUE", "CHAINID",
     "CODECOPY", "CMP", "DUP", "EXTCODEHASH", "GAS", "GASPRICE", "ISZERO",
     "JUMP", "JUMPDEST", "JUMPI", "LOG", "MEMORY", "MSIZE", "MUL_DIV_MOD",
     "ORIGIN", "PC", "POP", "PUSH", "SCMP", "BLOCKCTXU64", "BLOCKCTXU160",
     "BLOCKCTXU256", "SELFBALANCE", "SIGNEXTEND", "SLOAD", "SSTORE", "STOP",
     "SWAP", "ErrorOutOfGasStaticMemoryExpansion"}

\* assign_exec_step that assigns nothing for a state without a gadget.
assign_exec_step_skip(execution_state) ==
    IF execution_state \in GadgetStates
    THEN [ok |-> TRUE, gadget |-> execution_state]
    ELSE [ok |-> TRUE, gadget |-> "None"]

\* ExecutionConfig::assign_exec_step: the gadget of the execution state,
\* and unimplemented!() for every other state (ok is FALSE for a panic).
assign_exec_step(execution_state) ==
    IF execution_state \in GadgetStates
    THEN [ok |-> TRUE, gadget |-> execution_state]
    ELSE [ok |-> FALSE, gadget |-> "None"]

\* ExecStep::oog_or_stack_error.
oog_or_stack_error(step) ==
    step.error \in {"OutOfGas", "StackOverflow", "StackUnderflow"}

\* A step of the trace: the name of its opcode, whether the stack of the
\* step after it is empty, and the error the trace reports for it.
TraceStep(name, next_stack_empty, error) ==
    [name |-> name, next_stack_empty |-> next_stack_empty, error |-> error]

\* The steps a trace is made of.  A trace whose CALLER is followed by an
\* empty stack is malformed; FOO is not the name of an opcode.
TraceSteps ==
    {TraceStep("PC", FALSE, "None"), TraceStep("POP", FALSE, "None"),
     TraceStep("CALLER", FALSE, "None"), TraceStep("CALLER", TRUE, "None"),
     TraceStep("COINBASE", FALSE, "None"), TraceStep("FOO", FALSE, "None"),
     TraceStep("POP", FALSE, "StackUnderflow"),
     TraceStep("PC", FALSE, "OutOfGas")}

\* Caller handler that takes zero for the top of an empty stack.
Caller_try_default(b, stack, next_stack) ==
    IF Len(next_stack) = 0
    THEN [ok |-> TRUE, err |-> "None",
          b |-> Caller_gen_associated_ops(b, stack, <<0>>)]
    ELSE [ok |-> TRUE, err |-> "None",
          b |-> Caller_gen_associated_ops(b, stack, next_stack)]

\* Caller::gen_associated_ops with its errors: geth_steps[1].stack.last()?
\* fails on an empty stack.
Caller_try(b, stack, next_stack) ==
    IF Len(next_stack) = 0
    THEN [ok |-> FALSE, err |-> "InvalidStackPointer", b |-> b]
    ELSE [ok |-> TRUE, err |-> "None",
          b |-> Caller_gen_associated_ops(b, stack, next_stack)]

\* The stack of the step after a step of the trace.
NextStack(g) ==
    LET stack == CurCtx.stack
    IN  CASE g.next_stack_empty -> <<>>
          [] g.name = "POP" -> SubSeq(stack, 1, Len(stack) - 1)
          [] g.name = "CALLER" -> Append(stack, CurCall.caller_address)
          [] g.name = "PC" -> Append(stack, Len(geth_trace))
          [] OTHER -> Append(stack, 0)

\* Handler of PC and COINBASE that writes the value of a counter kept
\* outside the builder it is given.
PushWord_ambient_counter(b, stack, next_stack) ==
    push_stack_op(b, "WRITE", last_filled(stack) - 1, rwc)

\* The handler of an opcode that pushes one word (PC, COINBASE): the write
\* of the word the next stack has on top.
PushWord_gen_associated_ops(b, stack, next_stack) ==
    push_stack_op(b, "WRITE", last_filled(stack) - 1,
                  next_stack[Len(next_stack)])

\* The handler of POP: the read of the top of the stack.
Pop_gen_associated_ops(b, stack) ==
    push_stack_op(b, "READ", last_filled(stack), stack[Len(stack)])

\* A step with an error has no access and ends its call: the writes of the
\* call are reverted.
Error_gen_associated_ops(b) == handle_reversion(b)

\* ExecutionStep::gen_associated_ops: the result of the handler of the
\* step's opcode, as it is.
gen_associated_ops(g) ==
    LET stack == CurCtx.stack
        next_stack == NextStack(g)
        b == Builder([new_step(g.name) EXCEPT !.error = g.error])
        done(bb) == [ok |-> TRUE, err |-> "None", b |-> bb]
    IN  CASE g.error # "None" -> done(Error_gen_associated_ops(b))
          [] g.name = "CALLER" -> Caller_try(b, stack, next_stack)
          [] g.name = "POP" -> done(Pop_gen_associated_ops(b, stack))
          [] OTHER ->
                 done(PushWord_gen_associated_ops(b, stack, next_stack))

\* The state before the first step of the root call, which succeeds or not.
InitBuild ==
    \E is_success \in BOOLEAN :
        LET root == [call_id |-> 1, caller_id |-> 0, is_root |-> TRUE,
                     is_success |-> is_success, is_persistent |-> is_success,
                     rw_counter_end_of_reversion |-> 0, depth |-> 1,
                     caller_address |-> SenderOf(1), address |-> AddressOf(1)]
        IN  /\ rwc = 1
            /\ container = [t \in Targets |-> <<>>]
            /\ steps = <<>>
            /\ calls = <<root>>
            /\ frame_state = <<"Active">>
            /\ call_stack = <<NewCallContext(1)>>
            /\ reversion_groups =
                   push_call_ctx(<<>>, 1, is_success, NewCallContext(1))
            /\ sdb = [k \in Keys |-> 0]
            /\ committed = [k \in Keys |-> 0]
            /\ tx_id = 1
            /\ phase = "running"
            /\ last_ref = <<>>
            /\ copy_events = <<>>
            /\ padded = NoPadding
            /\ geth_trace = <<>>
            /\ witness = <<>>

\* The trace can go on with step g: the call is running, a POP has a word to
\* pop unless the trace reports the underflow, and a step with an error is a
\* step of a call that fails.
TraceStepFits(g) ==
    /\ Len(call_stack) = 1
    /\ frame_state[1] = "Active"
    /\ g.error # "None" => ~CurCall.is_success
    /\ (g.name = "POP" /\ g.error = "None") => Len(CurCtx.stack) > 0
    /\ g.error = "StackUnderflow" => Len(CurCtx.stack) = 0
    /\ (g.name # "POP" /\ g.error = "None") => Len(CurCtx.stack) < MaxStack

\* One step of the trace: its name is parsed and its handler is run.  An
\* error of either ends the build with that error.
HandleStep(g) ==
    /\ phase = "running"
    /\ Len(geth_trace) < MaxTrace
    /\ TraceStepFits(g)
    /\ geth_trace' = Append(geth_trace, g)
    /\ LET parsed == OpcodeId_from_str(g.name)
           r == gen_associated_ops(g)
       IN  IF ~parsed.ok
           THEN /\ phase' = parsed.err
                /\ UNCHANGED <<rwc, container, steps, last_ref, sdb,
                               reversion_groups, calls, call_stack,
                               frame_state>>
           ELSE IF ~r.ok
           THEN /\ phase' = r.err
                /\ UNCHANGED <<rwc, container, steps, last_ref, sdb,
                               reversion_groups, calls, call_stack,
                               frame_state>>
           ELSE /\ phase' = phase
                /\ Commit(r.b, IF g.error = "None" THEN NextStack(g)
                               ELSE CurCtx.stack,
                          CurCtx.memory)
                /\ frame_state' = IF g.error = "None" THEN frame_state
                                  ELSE [frame_state EXCEPT ![1] = "Reverted"]
    /\ UNCHANGED <<committed, tx_id, copy_events, padded, witness>>

\* block_convert: every step of the block that was built becomes a step of
\* the witness; a panic of one conversion is a panic of the whole.
Convert(debug_assertions) ==
    /\ phase = "running"
    /\ Len(steps) > 0
    /\ LET conv == [i \in 1..Len(steps) |->
                       ExecutionState_from(steps[i], debug_assertions)]
       IN  IF \A i \in 1..Len(steps) : conv[i].ok
           THEN /\ phase' = "converted"
                /\ witness' = [i \in 1..Len(steps) |->
                                  [execution_state |-> conv[i].state,
                                   rw_counter |-> steps[i].rwc,
                                   opcode |-> steps[i].exec_state,
                                   gadget |-> "None"]]
           ELSE /\ phase' = "panic"
                /\ witness' = witness
    /\ UNCHANGED <<rwc, container, steps, calls, frame_state, call_stack,
                   reversion_groups, sdb, committed, tx_id, last_ref,
                   copy_events, padded, geth_trace>>

\* assign_block: every step of the witness is assigned to the gadget of its
\* execution state; a panic of one assignment is a panic of the whole.
Assign ==
    /\ phase = "converted"
    /\ LET a == [i \in 1..Len(witness) |->
                    assign_exec_step(witness[i].execution_state)]
       IN  IF \A i \in 1..Len(witness) : a[i].ok
           THEN /\ phase' = "assigned"
                /\ witness' = [i \in 1..Len(witness) |->
                                  [witness[i] EXCEPT !.gadget = a[i].gadget]]
           ELSE /\ phase' = "panic"
                /\ witness' = witness
    /\ UNCHANGED <<rwc, container, steps, calls, frame_state, call_stack,
                   reversion_groups, sdb, committed, tx_id, last_ref,
                   copy_events, padded, geth_trace>>

NextBuild ==
    \/ \E g \in TraceSteps : HandleStep(g)
    \/ \E debug_assertions \in BOOLEAN : Convert(debug_assertions)
    \/ Assign

SpecBuild == InitBuild /\ [][NextBuild]_vars

(***************************************************************************)
(* The gate "Constrain execution state" of the EVM circuit                 *)
(* (execution.rs): every step has one cell per execution state, the        *)
(* prover assigns the cells, and the gate is a list of polynomials that    *)
(* must all be zero on every row where q_step is enabled.                  *)
(***************************************************************************)
\* The execution states of the model, in the order of their cells.
ExecutionStates ==
    <<"BeginTx", "EndTx", "EndBlock", "STOP", "PUSH", "CopyToMemory",
      "CALLDATACOPY">>

\* ExecutionState::halts: the states that end a call.
halts(state) == state \in {"STOP", "RETURN", "REVERT", "SELFDESTRUCT"}

\* The cells of a step that is in one state.
StateCells(state) ==
    [i \in 1..Len(ExecutionStates) |->
        IF ExecutionStates[i] = state THEN 1 ELSE 0]

\* The cells of a row that was never assigned.
UnassignedCells == [i \in 1..Len(ExecutionStates) |-> 0]

\* What a prover can put in the cells of a step: one state, or no state,
\* or two states, or two cells that are not bits and add up to one.
CellAssignments ==
    {StateCells(ExecutionStates[i]) : i \in 1..Len(ExecutionStates)}
        \cup {UnassignedCells,
              [StateCells("BeginTx") EXCEPT ![2] = 1],
              [UnassignedCells EXCEPT ![1] = 2, ![2] = -1]}

RECURSIVE SumCells(_, _)
SumCells(cells, n) ==
    IF n = 0 THEN 0 ELSE SumCells(cells, n - 1) + cells[n]

\* Step::execution_state_selector: the sum of the cells of the states.
execution_state_selector(cells, states) ==
    SumCells([i \in 1..Len(cells) |->
                 IF ExecutionStates[i] \in states THEN cells[i] ELSE 0],
             Len(cells))

\* "Only one of execution_state should be enabled".
sum_to_one(cells) == 1 - SumCells(cells, Len(cells))

\* "Representation for execution_state should be bool".
bool_checks(cells) ==
    [i \in 1..Len(cells) |-> cells[i] * (1 - cells[i])]

\* "ExecutionState transition should be correct": the states a state can
\* transit to, then the states a state can be reached from, all of them
\* switched off on the row of q_step_last.
execution_state_transition(curr, next, q_step_last) ==
    LET to(from, tos) ==
            execution_state_selector(curr, {from})
                * (1 - execution_state_selector(next, tos))
        from(to_state, froms) ==
            execution_state_selector(next, {to_state})
                * (1 - execution_state_selector(curr, froms))
        polys ==
            <<to("EndTx", {"BeginTx", "EndBlock"}),
              to("EndBlock", {"EndBlock"}),
              from("BeginTx", {"EndTx"}),
              from("EndTx",
                   {ExecutionStates[i] : i \in
                       {j \in 1..Len(ExecutionStates) :
                           halts(ExecutionStates[j])}} \cup {"BeginTx"}),
              from("EndBlock", {"EndTx", "EndBlock"}),
              from("CopyToMemory", {"CopyToMemory", "CALLDATACOPY"})>>
    IN  [i \in 1..Len(polys) |-> (1 - q_step_last) * polys[i]]

\* "First step should be BeginTx": built by configure and left out of the
\* gate.
first_step_check(curr, q_step_first) ==
    <<q_step_first * (1 - execution_state_selector(curr, {"BeginTx"}))>>

\* "Last step should be EndBlock": built by configure and left out of the
\* gate.
last_step_check(curr, q_step_last) ==
    <<q_step_last * (1 - execution_state_selector(curr, {"EndBlock"}))>>

\* The cells of the step after row o: those of a row past the last step
\* were never assigned.
NextCells(rows, o) ==
    IF o < Len(rows) THEN rows[o + 1].cells ELSE UnassignedCells

\* The gate without the polynomial for the sum of the cells.
constrain_execution_state_no_sum(rows, o) ==
    LET row == rows[o]
        polys == bool_checks(row.cells)
                     \o execution_state_transition(row.cells,
                                                   NextCells(rows, o),
                                                   Bit(row.q_step_last))
    IN  [i \in 1..Len(polys) |-> Bit(row.q_step) * polys[i]]

\* The gate with the two checks of the first and the last step chained.
constrain_execution_state_first_last(rows, o) ==
    LET row == rows[o]
        polys == <<sum_to_one(row.cells)>> \o bool_checks(row.cells)
                     \o execution_state_transition(row.cells,
                                                   NextCells(rows, o),
                                                   Bit(row.q_step_last))
                     \o first_step_check(row.cells, Bit(row.q_step_first))
                     \o last_step_check(row.cells, Bit(row.q_step_last))
    IN  [i \in 1..Len(polys) |-> Bit(row.q_step) * polys[i]]

\* The gate "Constrain execution state" on row o: the sum, the bits and
\* the transitions, each times q_step.  The checks of the first and the
\* last step are not chained.
constrain_execution_state(rows, o) ==
    LET row == rows[o]
        polys == <<sum_to_one(row.cells)>> \o bool_checks(row.cells)
                     \o execution_state_transition(row.cells,
                                                   NextCells(rows, o),
                                                   Bit(row.q_step_last))
    IN  [i \in 1..Len(polys) |-> Bit(row.q_step) * polys[i]]

\* The verifier's answer: every polynomial of the gate is zero on every
\* row.
GateHolds(rows) ==
    \A o \in 1..Len(rows) :
        LET polys == constrain_execution_state(rows, o)
        IN  \A i \in 1..Len(polys) : polys[i] = 0

InitExec ==
    /\ rwc = 1
    /\ container = [t \in Targets |-> <<>>]
    /\ steps = <<>>
    /\ calls = <<>>
    /\ frame_state = <<>>
    /\ call_stack = <<>>
    /\ reversion_groups = <<>>
    /\ sdb = [k \in Keys |-> 0]
    /\ committed = [k \in Keys |-> 0]
    /\ tx_id = 0
    /\ phase = "assigning"
    /\ last_ref = <<>>
    /\ copy_events = <<>>
    /\ padded = NoPadding
    /\ geth_trace = <<>>
    /\ witness = <<>>

\* One turn of the loop of assign_block: q_step is enabled on the rows of
\* the step, q_step_first on the first step alone, and the cells are the
\* prover's.
AssignStep(cells) ==
    /\ phase = "assigning"
    /\ Len(witness) < MaxTrace
    /\ witness' = Append(witness,
                         [cells |-> cells, q_step |-> TRUE,
                          q_step_first |-> Len(witness) = 0,
                          q_step_last |-> FALSE])
    /\ UNCHANGED <<rwc, container, steps, calls, frame_state, call_stack,
                   reversion_groups, sdb, committed, tx_id, phase, last_ref,
                   copy_events, padded, geth_trace>>

\* The end of assign_block, which leaves q_step_last off, or of
\* assign_block_exact, which enables it on the last step.
AssignEnd(exact) ==
    /\ phase = "assigning"
    /\ Len(witness) > 0
    /\ phase' = "assigned"
    /\ witness' = IF exact
                  THEN [witness EXCEPT ![Len(witness)].q_step_last = TRUE]
                  ELSE witness
    /\ UNCHANGED <<rwc, container, steps, calls, frame_state, call_stack,
                   reversion_groups, sdb, committed, tx_id, last_ref,
                   copy_events, padded, geth_trace>>

\* The verification of the assignment against the gate.
Verify ==
    /\ phase = "assigned"
    /\ phase' = IF GateHolds(witness) THEN "accepted" ELSE "rejected"
    /\ UNCHANGED <<rwc, container, steps, calls, frame_state, call_stack,
                   reversion_groups, sdb, committed, tx_id, last_ref,
                   copy_events, padded, geth_trace, witness>>

NextExec ==
    \/ \E cells \in CellAssignments : AssignStep(cells)
    \/ \E exact \in BOOLEAN : AssignEnd(exact)
    \/ Verify

SpecExec == InitExec /\ [][NextExec]_vars

(***************************************************************************)
(* The build as a function of the trace: the builder state is one value,   *)
(* handle_step folds one step of the trace into it, and build folds a      *)
(* whole trace from the state before the first step.                       *)
(***************************************************************************)
\* The builder before the first step of a root call that succeeds or not.
new_builder(is_success) ==
    LET root == [call_id |-> 1, caller_id |-> 0, is_root |-> TRUE,
                 is_success |-> is_success, is_persistent |-> is_success,
                 rw_counter_end_of_reversion |-> 0, depth |-> 1,
                 caller_address |-> SenderOf(1), address |-> AddressOf(1)]
    IN  [rwc |-> 1, container |-> [t \in Targets |-> <<>>], steps |-> <<>>,
         calls |-> <<root>>, frame_state |-> <<"Active">>,
         call_stack |-> <<NewCallContext(1)>>,
         reversion_groups |->
             push_call_ctx(<<>>, 1, is_success, NewCallContext(1)),
         sdb |-> [k \in Keys |-> 0], last_ref |-> <<>>,
         result |-> "running", handled |-> 0]

\* One step of the trace folded into the builder: its name is parsed, its
\* handler is run on the stack of the current call, and the first error
\* ends the build.
handle_step(s, g) ==
    LET ctx == s.call_stack[Len(s.call_stack)]
        call == s.calls[ctx.index]
        stack == ctx.stack
        next_stack ==
            CASE g.next_stack_empty -> <<>>
              [] g.name = "POP" -> SubSeq(stack, 1, Len(stack) - 1)
              [] g.name = "CALLER" -> Append(stack, call.caller_address)
              [] g.name = "PC" -> Append(stack, s.handled)
              [] OTHER -> Append(stack, 0)
        step == [ExecStep_new(g.name, Len(stack), ctx, s.rwc,
                              ctx.reversible_write_counter)
                     EXCEPT !.error = g.error]
        b == [rwc |-> s.rwc, container |-> s.container, step |-> step,
              ref |-> s.last_ref, ctx |-> ctx, calls |-> s.calls,
              groups |-> s.reversion_groups, sdb |-> s.sdb]
        done(bb) == [ok |-> TRUE, err |-> "None", b |-> bb]
        r == CASE g.error # "None" -> done(Error_gen_associated_ops(b))
               [] g.name = "CALLER" -> Caller_try(b, stack, next_stack)
               [] g.name = "POP" -> done(Pop_gen_associated_ops(b, stack))
               [] OTHER ->
                      done(PushWord_gen_associated_ops(b, stack, next_stack))
        parsed == OpcodeId_from_str(g.name)
        t == [s EXCEPT !.handled = @ + 1]
    IN  IF s.result # "running" THEN s
        ELSE IF ~parsed.ok THEN [t EXCEPT !.result = parsed.err]
        ELSE IF ~r.ok THEN [t EXCEPT !.result = r.err]
        ELSE [t EXCEPT
                 !.rwc = r.b.rwc,
                 !.container = r.b.container,
                 !.steps = Append(@, r.b.step),
                 !.last_ref = r.b.ref,
                 !.sdb = r.b.sdb,
                 !.reversion_groups = r.b.groups,
                 !.calls = r.b.calls,
                 !.call_stack =
                     [@ EXCEPT ![Len(@)] =
                         [r.b.ctx EXCEPT
                             !.stack = IF g.error = "None" THEN next_stack
                                       ELSE stack]],
                 !.frame_state =
                     IF g.error = "None" THEN @
                     ELSE [@ EXCEPT ![1] = "Reverted"]]

\* The build of a whole trace: its steps in order, from the first.
RECURSIVE build(_, _, _)
build(s, trace, i) ==
    IF i > Len(trace) THEN s
    ELSE build(handle_step(s, trace[i]), trace, i + 1)

(***************************************************************************)
(* The copy circuit (copy_circuit.rs): the rows assigned for the copy      *)
(* events of a block and the gates that every enabled row must satisfy.    *)
(***************************************************************************)
\* The address of a log data byte packs the byte index, the field tag and
\* the log id.  The shifts of the circuit are 32 and 48 bits; here they are
\* 8 and 12 bits, wide enough for every index and tag of the model.
TxLogFieldTagData == 3
tx_log_addr(index, log_id) ==
    index + TxLogFieldTagData * 256 + log_id * 4096

\* LtChip::assign whose witness is lhs <= rhs.
lt_chip_assign_le(lhs, rhs) == Bit(lhs <= rhs)

\* LtChip::assign: the witness of lhs < rhs.
lt_chip_assign(lhs, rhs) == Bit(lhs < rhs)

\* assign_step whose bytes_left decreases with every step.
assign_step_bytes_left_per_step(copy_event, step_idx, copy_step) ==
    LET is_read == copy_step.rw = "READ"
    IN  [q_enable |-> 1,
         q_step |-> Bit(is_read),
         is_first |-> Bit(step_idx = 0),
         is_last |-> Bit(step_idx = Len(copy_event.steps) - 1),
         id |-> IF is_read THEN copy_event.src_id ELSE copy_event.dst_id,
         addr |-> IF copy_step.tag = "TxLog"
                  THEN tx_log_addr(copy_step.addr, copy_event.log_id)
                  ELSE copy_step.addr,
         value |-> copy_step.value,
         is_code |-> Bit(copy_step.is_code = "Some(true)"),
         is_pad |-> Bit(copy_step.is_pad),
         rw_counter |-> copy_step.rwc,
         rwc_inc_left |-> copy_step.rwc_inc_left,
         tag |-> copy_step.tag,
         src_addr_end |-> IF is_read THEN copy_event.src_addr_end ELSE 0,
         bytes_left |-> IF is_read THEN copy_event.length - step_idx ELSE 0,
         lt |-> IF is_read
                THEN lt_chip_assign(copy_step.addr, copy_event.src_addr_end)
                ELSE 0]

\* assign_step: the row of one copy step.  The cells assigned only on read
\* rows keep the default 0 on write rows.
assign_step(copy_event, step_idx, copy_step) ==
    LET is_read == copy_step.rw = "READ"
    IN  [q_enable |-> 1,
         q_step |-> Bit(is_read),
         is_first |-> Bit(step_idx = 0),
         is_last |-> Bit(step_idx = Len(copy_event.steps) - 1),
         id |-> IF is_read THEN copy_event.src_id ELSE copy_event.dst_id,
         addr |-> IF copy_step.tag = "TxLog"
                  THEN tx_log_addr(copy_step.addr, copy_event.log_id)
                  ELSE copy_step.addr,
         value |-> copy_step.value,
         is_code |-> Bit(copy_step.is_code = "Some(true)"),
         is_pad |-> Bit(copy_step.is_pad),
         rw_counter |-> copy_step.rwc,
         rwc_inc_left |-> copy_step.rwc_inc_left,
         tag |-> copy_step.tag,
         src_addr_end |-> IF is_read THEN copy_event.src_addr_end ELSE 0,
         bytes_left |-> IF is_read
                        THEN copy_event.length - (step_idx \div 2) ELSE 0,
         lt |-> IF is_read
                THEN lt_chip_assign(copy_step.addr, copy_event.src_addr_end)
                ELSE 0]

\* assign_padding_row: a disabled row of zeros with the default tag.
assign_padding_row ==
    [q_enable |-> 0, q_step |-> 0, is_first |-> 0, is_last |-> 0,
     id |-> 0, addr |-> 0, value |-> 0, is_code |-> 0, is_pad |-> 0,
     rw_counter |-> 0, rwc_inc_left |-> 0, tag |-> "Bytecode",
     src_addr_end |-> 0, bytes_left |-> 0, lt |-> 0]

\* The rows of the events k .. Len(events), in order.
RECURSIVE assign_events(_, _)
assign_events(events, k) ==
    IF k > Len(events) THEN <<>>
    ELSE [i \in 1..Len(events[k].steps) |->
             assign_step(events[k], i - 1, events[k].steps[i])]
         \o assign_events(events, k + 1)

\* assign_block: the rows of every event, then two padding rows.
assign_block(events) ==
    assign_events(events, 1) \o <<assign_padding_row, assign_padding_row>>

\* rw_diff that counts a padded read as an access.
rw_diff_ignore_pad(row) ==
    Bit(row.tag \in {"Memory", "TxLog"})

\* rw_diff of the "verify row" gate: 1 on a Memory or TxLog row that is
\* not padding.
rw_diff(row) ==
    Bit(row.tag \in {"Memory", "TxLog"} /\ row.is_pad = 0)

\* "verify row", the counters: below the last row of an event rw_counter
\* grows and rwc_inc_left falls by rw_diff; on the last row rwc_inc_left is
\* the row's own rw_diff.
verify_row_counters(rows, o) ==
    LET cur == rows[o]
        next == rows[o + 1]
    IN  /\ cur.is_last = 0 =>
               /\ cur.rw_counter + rw_diff(cur) = next.rw_counter
               /\ cur.rwc_inc_left - rw_diff(cur) = next.rwc_inc_left
        /\ cur.is_last # 0 => cur.rwc_inc_left = rw_diff(cur)

\* The gate "verify row" at offset o (enabled by q_enable).
verify_row(rows, o) ==
    LET cur == rows[o]
        next == rows[o + 1]
        not_last_two_rows == 1 - cur.is_last - next.is_last
    IN  /\ cur.is_first \in {0, 1}
        /\ cur.is_last \in {0, 1}
        /\ (1 - cur.q_step) * cur.is_first = 0
        /\ cur.is_last * cur.q_step = 0
        /\ not_last_two_rows # 0 =>
               /\ cur.id = rows[o + 2].id
               /\ cur.tag = rows[o + 2].tag
               /\ cur.addr + 1 = rows[o + 2].addr
        /\ verify_row_counters(rows, o)

\* "verify step", the byte count: bytes_left is 1 on the last read row and
\* one more than two rows below on the others, where src_addr_end repeats.
verify_step_bytes_left(rows, o) ==
    LET cur == rows[o]
        next == rows[o + 1]
    IN  /\ next.is_last * (1 - cur.bytes_left) = 0
        /\ next.is_last = 0 =>
               /\ cur.src_addr_end = rows[o + 2].src_addr_end
               /\ cur.bytes_left = rows[o + 2].bytes_left + 1

\* "verify step", the value: the write row carries the value read.
verify_step_value(rows, o) == rows[o].value = rows[o + 1].value

\* "verify step", the padding: a padded read is zero, a read is padded
\* exactly when its address is not below src_addr_end, a write never is.
verify_step_pad(rows, o) ==
    LET cur == rows[o]
        next == rows[o + 1]
    IN  /\ cur.is_pad * cur.value = 0
        /\ 1 - cur.lt = cur.is_pad
        /\ next.is_pad = 0

\* The gate "verify step" at offset o (enabled by q_step, the read rows).
verify_step(rows, o) ==
    /\ verify_step_bytes_left(rows, o)
    /\ verify_step_value(rows, o)
    /\ verify_step_pad(rows, o)

\* Every gate holds on every assigned row.
CopyGatesHold(rows) ==
    \A o \in 1..(Len(rows) - 2) :
        /\ rows[o].q_enable = 1 => verify_row(rows, o)
        /\ rows[o].q_step = 1 => verify_step(rows, o)

\* The row of the RW table a Memory or TxLog row of the copy table looks up.
copy_rw_lookup(c, row) ==
    \E op \in RowSet(c) :
        /\ op.rwc = row.rw_counter
        /\ op.target = row.tag
        /\ is_write(op) = (IF row.tag = "TxLog" THEN TRUE ELSE row.q_step = 0)
        /\ op.id = row.id
        /\ row.addr = (IF row.tag = "TxLog"
                       THEN tx_log_addr(op.address, op.key)
                       ELSE op.address)
        /\ op.value = row.value

\* The Memory and TxLog lookups hold on every enabled row.
CopyLookupsHold(c, rows) ==
    \A o \in 1..Len(rows) :
        LET row == rows[o]
        IN  /\ (row.q_enable = 1 /\ row.tag = "Memory" /\ row.is_pad = 0)
                   => copy_rw_lookup(c, row)
            /\ (row.q_enable = 1 /\ row.tag = "TxLog")
                   => copy_rw_lookup(c, row)

(***************************************************************************)
(* Properties.                                                             *)
(***************************************************************************)
Op(ref) == container[ref[1]][ref[2]]

StepOps(s) ==
    [i \in 1..Len(s.bus_mapping_instance) |-> Op(s.bus_mapping_instance[i])]

\* The lookups the circuit demands for the reversible write of an SSTORE
\* step: the cells of ReversionInfo hold the values of the step's call.
ReversibleWriteLookups(s) ==
    reversible_write(ConstraintBuilder(s), "Storage",
                     RwValues(Op(s.bus_mapping_instance[1])),
                     reversion_info(calls[s.call_index], s)).cb.lookups

\* A call whose reversion, if it has one, has been handled.
Resolved(call) ==
    call.is_persistent \/ call.rw_counter_end_of_reversion # 0

\* Call.is_persistent as documented: this call and all its callers have
\* is_success = TRUE.
RECURSIVE AllSucceeded(_)
AllSucceeded(idx) ==
    IF idx = 0 THEN TRUE
    ELSE calls[idx].is_success /\ AllSucceeded(calls[idx].caller_id)

\* C1: the RWC values of all operations of the block are exactly
\* {1, ..., N}: they start at 1, no two operations share one, there is no
\* gap; the sanity check of the witness accepts them.
C1_RwcContiguous ==
    LET rows == AllRows(container)
    IN  /\ {rows[i].rwc : i \in 1..Len(rows)} = 1..Len(rows)
        /\ check_rw_counter_sanity(container)

C1_Witness ==
    /\ Len(container["Storage"]) >= 2
    /\ Len(container["Stack"]) >= 1
    /\ \E i \in 1..Len(frame_state) : frame_state[i] = "Reverted"

\* C2: within every step the RWCs of bus_mapping_instance increase
\* strictly in list order, the i-th reference holds the i-th counter the
\* step consumed, and the list is the handler's push order: CALLER's
\* call-context read then stack write, MLOAD's stack read, stack write and
\* 32 memory reads.
C2_StepOrder ==
    \A n \in 1..Len(steps) :
        LET s == steps[n]
            ops == StepOps(s)
        IN  /\ \A i, j \in 1..Len(ops) : i < j => ops[i].rwc < ops[j].rwc
            /\ \A i \in 1..Len(ops) : ops[i].rwc = s.rwc + i - 1
            /\ s.exec_state = "CALLER" =>
                   /\ Len(ops) = 2
                   /\ ops[1].target = "CallContext" /\ ops[1].rw = "READ"
                   /\ ops[1].field = "CallerAddress"
                   /\ ops[2].target = "Stack" /\ ops[2].rw = "WRITE"
            /\ s.exec_state = "MLOAD" =>
                   /\ Len(ops) = N_BYTES_WORD + 2
                   /\ ops[1].target = "Stack" /\ ops[1].rw = "READ"
                   /\ ops[2].target = "Stack" /\ ops[2].rw = "WRITE"
                   /\ \A i \in 3..Len(ops) :
                          /\ ops[i].target = "Memory" /\ ops[i].rw = "READ"
                          /\ ops[i].address = ops[1].value + i - 3

C2_Witness ==
    /\ \E n \in 1..Len(steps) : steps[n].exec_state = "CALLER"
    /\ \E n \in 1..Len(steps) :
           /\ steps[n].exec_state = "MLOAD"
           /\ Len(steps[n].bus_mapping_instance) = 34

\* C3: every operation of an earlier step has a smaller RWC than every
\* operation of a later step, and every access consumed exactly one RWC
\* value: a step's entry counter plus the number of its operations is the
\* next step's entry counter.
C3_CrossStepOrder ==
    /\ \A m, n \in 1..Len(steps) :
           m < n =>
               \A i \in 1..Len(steps[m].bus_mapping_instance),
                  j \in 1..Len(steps[n].bus_mapping_instance) :
                   Op(steps[m].bus_mapping_instance[i]).rwc
                       < Op(steps[n].bus_mapping_instance[j]).rwc
    /\ \A n \in 1..Len(steps) :
           (IF n < Len(steps) THEN steps[n + 1].rwc ELSE rwc)
               = steps[n].rwc + Len(steps[n].bus_mapping_instance)
    /\ Len(AllRows(container)) = rwc - 1

C3_Witness ==
    \E m, n \in 1..Len(steps) :
        /\ m < n
        /\ steps[m].exec_state = "SSTORE"
        /\ steps[n].exec_state = "REVERT"
        /\ Len(steps[n].bus_mapping_instance) >= 1

\* C4: a push_op call takes the next RWC, stores the operation stamped with
\* it at the end of its target's list, appends exactly one reference to that
\* operation to the end of the given step's bus_mapping_instance and returns
\* the same reference; the other stored operations, the other targets and
\* the other steps stay as they were.
C4_PushOpEffect ==
    [][Len(steps') = Len(steps) =>
          \E t \in Targets :
              LET n == Len(container[t])
                  cur == Len(steps)
              IN  /\ rwc' = rwc + 1
                  /\ Len(container'[t]) = n + 1
                  /\ container'[t][n + 1].rwc = rwc
                  /\ SubSeq(container'[t], 1, n) = container[t]
                  /\ \A u \in Targets \ {t} : container'[u] = container[u]
                  /\ steps'[cur] =
                         [steps[cur] EXCEPT !.bus_mapping_instance =
                                                Append(@, <<t, n + 1>>)]
                  /\ \A m \in 1..(cur - 1) : steps'[m] = steps[m]
                  /\ last_ref' = <<t, n + 1>>]_vars

C4_Witness ==
    /\ Len(steps) >= 2
    /\ Len(steps[1].bus_mapping_instance) >= 1
    /\ Len(steps[Len(steps)].bus_mapping_instance) >= 2
    /\ last_ref = steps[Len(steps)].bus_mapping_instance[2]

\* C5: in a frame with is_persistent = FALSE whose reversion has been
\* handled, every reversible write has exactly one mirrored write, at RWC
\* rw_counter_end_of_reversion - k where k is the frame's
\* reversible_write_counter when the write was issued (the 0-based index of
\* the write within the frame); the mirrored write restores the pre-write
\* value, it is the row the circuit's reversible_write looks up, and no two
\* writes share a mirrored write.
C5_MirroredWrite ==
    \A n \in 1..Len(steps) :
        LET s == steps[n]
            call == calls[s.call_index]
        IN  (/\ s.exec_state = "SSTORE"
             /\ ~call.is_persistent
             /\ call.rw_counter_end_of_reversion # 0) =>
                LET w == Op(s.bus_mapping_instance[1])
                    at == call.rw_counter_end_of_reversion
                              - s.reversible_write_counter
                    mirrors == {row \in RowSet(container) : row.rwc = at}
                    lookups == ReversibleWriteLookups(s)
                IN  /\ Cardinality(mirrors) = 1
                    /\ \A row \in mirrors :
                           /\ row.target = "Storage" /\ is_write(row)
                           /\ RowKey(row) = RowKey(w)
                           /\ row.rwc > w.rwc
                           /\ row.value = w.value_prev
                           /\ row.value_prev = w.value
                    /\ Len(lookups) = 2
                    /\ lookups[2].counter = at
                    /\ LookupHolds(container, lookups[2])
                    /\ \A m \in 1..Len(steps) :
                           LET c2 == calls[steps[m].call_index]
                           IN  (/\ m # n
                                /\ steps[m].exec_state = "SSTORE"
                                /\ ~c2.is_persistent
                                /\ c2.rw_counter_end_of_reversion # 0) =>
                                   c2.rw_counter_end_of_reversion
                                       - steps[m].reversible_write_counter
                                       # at

C5_Witness ==
    \E m, n \in 1..Len(steps) :
        /\ m < n
        /\ steps[m].exec_state = "SSTORE" /\ steps[n].exec_state = "SSTORE"
        /\ steps[m].call_index = steps[n].call_index
        /\ steps[m].reversible_write_counter = 0
        /\ steps[n].reversible_write_counter = 1
        /\ Op(steps[m].bus_mapping_instance[1]).value = 1
        /\ frame_state[steps[m].call_index] = "Reverted"
        /\ calls[steps[m].call_index].rw_counter_end_of_reversion # 0

\* C5 as stated: the mirrored write is at RWC
\* rw_counter_end_of_reversion - k with k the 1-based index of the write
\* within the frame.
C5_OneBasedIndex ==
    \A n \in 1..Len(steps) :
        LET s == steps[n]
            call == calls[s.call_index]
        IN  (/\ s.exec_state = "SSTORE"
             /\ ~call.is_persistent
             /\ call.rw_counter_end_of_reversion # 0) =>
                LET w == Op(s.bus_mapping_instance[1])
                    k == s.reversible_write_counter + 1
                    at == call.rw_counter_end_of_reversion - k
                IN  \E row \in RowSet(container) :
                        /\ row.rwc = at
                        /\ row.target = "Storage" /\ is_write(row)
                        /\ RowKey(row) = RowKey(w)
                        /\ row.rwc > w.rwc
                        /\ row.value = w.value_prev

\* C6: a reversible write has a mirrored undo write exactly when its frame
\* is not persistent: the circuit demands the reverting row only then and
\* every row it demands is in the table, the mirrored writes of the table
\* are as many as the reversible writes of the non-persistent frames whose
\* reversion has been handled, and a write of a persistent frame has none.
C6_MirrorIffNotPersistent ==
    LET sstores == {n \in 1..Len(steps) : steps[n].exec_state = "SSTORE"}
        undone == {n \in sstores :
                      /\ ~calls[steps[n].call_index].is_persistent
                      /\ calls[steps[n].call_index]
                             .rw_counter_end_of_reversion # 0}
        mirrored == {i \in 1..Len(container["Storage"]) :
                        /\ is_write(container["Storage"][i])
                        /\ ~container["Storage"][i].reversible}
    IN  /\ Cardinality(mirrored) = Cardinality(undone)
        /\ \A n \in sstores :
               LET call == calls[steps[n].call_index]
                   lookups == ReversibleWriteLookups(steps[n])
               IN  Resolved(call) =>
                       /\ (Len(lookups) = 2) <=> ~call.is_persistent
                       /\ call.is_persistent => Len(lookups) = 1
                       /\ \A i \in 1..Len(lookups) :
                              LookupHolds(container, lookups[i])
                       /\ \A i \in 2..Len(lookups) :
                              \E row \in RowSet(container) :
                                  /\ row.rwc = lookups[i].counter
                                  /\ ~row.reversible

C6_Witness ==
    \E m, n \in 1..Len(steps) :
        /\ steps[m].exec_state = "SSTORE" /\ steps[n].exec_state = "SSTORE"
        /\ calls[steps[m].call_index].is_persistent
        /\ ~calls[steps[n].call_index].is_persistent
        /\ frame_state[steps[n].call_index] = "Reverted"
        /\ Len(ReversibleWriteLookups(steps[m])) = 1
        /\ Len(ReversibleWriteLookups(steps[n])) = 2

\* C7: for every call is_persistent = is_success /\ is_persistent of the
\* caller (a root call has no caller), which is: the call and every
\* ancestor succeeded; the IsPersistent field written for the call carries
\* that value.
C7_IsPersistent ==
    \A i \in 1..Len(calls) :
        LET call == calls[i]
        IN  /\ call.is_persistent =
                   (call.is_success
                    /\ (call.is_root \/ calls[call.caller_id].is_persistent))
            /\ call.is_persistent = AllSucceeded(i)
            /\ \A row \in RowSet(container) :
                   (/\ row.target = "CallContext"
                    /\ row.field = "IsPersistent"
                    /\ row.id = call.call_id) =>
                       row.value = (IF AllSucceeded(i) THEN 1 ELSE 0)

C7_Witness ==
    \E i, j \in 1..Len(calls) :
        /\ calls[i].is_root /\ ~calls[i].is_success
        /\ calls[j].caller_id = i
        /\ calls[j].is_success /\ ~calls[j].is_persistent

\* C8: in the table sorted by key and then by RWC, a read that is not the
\* first access to its (Target, key) carries the value of the row right
\* before it, the preceding write or read of the same key; check_value
\* reports no non-first read.
C8_ReadPreservesValue ==
    LET rows == table_assignments(container, FALSE)
    IN  /\ \A j \in 2..Len(rows) :
               (/\ ~is_write(rows[j])
                /\ RowKey(rows[j - 1]) = RowKey(rows[j])) =>
                   /\ rows[j - 1].rwc < rows[j].rwc
                   /\ rows[j].value = rows[j - 1].value
        /\ \A e \in check_value(container) : e[2] # "non_first"

C8_Witness ==
    LET rows == table_assignments(container, FALSE)
    IN  /\ \E j \in 2..Len(rows) :
               /\ rows[j].target = "Stack" /\ ~is_write(rows[j])
               /\ RowKey(rows[j - 1]) = RowKey(rows[j])
               /\ is_write(rows[j - 1]) /\ rows[j].value # 0
        /\ \E j \in 2..Len(rows) :
               /\ rows[j].target = "Storage" /\ ~is_write(rows[j])
               /\ RowKey(rows[j - 1]) = RowKey(rows[j])
               /\ is_write(rows[j - 1]) /\ rows[j].value = 1

\* C9: a read that is the first access to a storage, memory or stack slot
\* carries the slot's initial value, the committed value of a storage slot
\* and 0 of a memory or stack slot, and check_value reports no first read;
\* the first read of a call-context field carries the field's value, which
\* nothing compares with an initial value.
C9_FirstReadInitialValue ==
    LET rows == table_assignments(container, FALSE)
        is_first(j) == j = 1 \/ RowKey(rows[j - 1]) # RowKey(rows[j])
    IN  /\ \A j \in 1..Len(rows) :
               (/\ ~is_write(rows[j])
                /\ is_first(j)
                /\ rows[j].target # "CallContext") =>
                   rows[j].value = (IF init_value(rows[j]).some
                                    THEN init_value(rows[j]).value
                                    ELSE 0)
        /\ \A e \in check_value(container) : e[2] # "first"

C9_Witness ==
    LET rows == table_assignments(container, FALSE)
    IN  \E j \in 2..Len(rows) :
            /\ rows[j].target = "Storage" /\ ~is_write(rows[j])
            /\ RowKey(rows[j - 1]) # RowKey(rows[j])
            /\ rows[j].committed_value = 1 /\ rows[j].value = 1

\* C9 as stated: every first read, of whatever target, carries the
\* committed value or the default 0.
C9_EveryFirstRead ==
    LET rows == table_assignments(container, FALSE)
        is_first(j) == j = 1 \/ RowKey(rows[j - 1]) # RowKey(rows[j])
    IN  \A j \in 1..Len(rows) :
            (~is_write(rows[j]) /\ is_first(j)) =>
                rows[j].value = (IF init_value(rows[j]).some
                                 THEN init_value(rows[j]).value
                                 ELSE 0)

\* C10: every call frame is always in one of the states Active, Reverted,
\* Returned, and it is Active exactly while it is on the call stack; a new
\* frame starts Active; a frame that leaves Active is the top of the call
\* stack, is popped, and its caller is the top afterwards; a Reverted or
\* Returned frame keeps its state for ever.
C10_FrameStates ==
    /\ [](/\ Len(frame_state) = Len(calls)
          /\ \A i \in 1..Len(frame_state) :
                 /\ frame_state[i] \in {"Active", "Reverted", "Returned"}
                 /\ frame_state[i] = "Active" <=>
                        \E d \in 1..Len(call_stack) : call_stack[d].index = i)
    /\ [][/\ Len(frame_state') >= Len(frame_state)
          /\ \A i \in (Len(frame_state) + 1)..Len(frame_state') :
                 frame_state'[i] = "Active"
          /\ \A i \in 1..Len(frame_state) :
                 /\ frame_state[i] # "Active" =>
                        frame_state'[i] = frame_state[i]
                 /\ (frame_state[i] = "Active" /\ frame_state'[i] # "Active")
                        => /\ call_stack[Len(call_stack)].index = i
                           /\ Len(call_stack') = Len(call_stack) - 1
                           /\ \A d \in 1..Len(call_stack') :
                                  call_stack'[d].index = call_stack[d].index
                           /\ ~calls[i].is_root =>
                                  call_stack'[Len(call_stack')].index
                                      = calls[i].caller_id]_vars

C10_Witness ==
    /\ \E i \in 1..Len(frame_state) : frame_state[i] = "Reverted"
    /\ \E i \in 1..Len(frame_state) : frame_state[i] = "Returned"
    /\ Len(call_stack) = 1
    /\ frame_state[call_stack[1].index] = "Active"

(***************************************************************************)
(* Copy events.                                                            *)
(***************************************************************************)
\* C11: every copy event has exactly 2 * length steps, a read step followed
\* by a write step for each byte, and the rows assigned for it satisfy the
\* byte-count constraints of the copy circuit (bytes_left falls by one per
\* pair and is 1 on the last pair).
C11_CopyLengthLaw ==
    LET rows == assign_block(copy_events)
    IN  /\ \A k \in 1..Len(copy_events) :
               LET e == copy_events[k]
               IN  /\ Len(e.steps) = 2 * e.length
                   /\ \A i \in 1..e.length :
                          /\ e.steps[2 * i - 1].rw = "READ"
                          /\ e.steps[2 * i].rw = "WRITE"
        /\ \A o \in 1..(Len(rows) - 2) :
               /\ rows[o].q_step = Bit(o % 2 = 1)
               /\ rows[o].q_step = 1 => verify_step_bytes_left(rows, o)

\* A copy of at least two bytes has been extracted.
C11_Witness ==
    \E k \in 1..Len(copy_events) :
        /\ copy_events[k].length >= 2
        /\ Len(copy_events[k].steps) = 4

\* C12: the read step and the write step of the same byte of a copy event
\* carry the same value, and the rows assigned for them satisfy the
\* constraint "write value == read value".
C12_PairValue ==
    LET rows == assign_block(copy_events)
    IN  /\ \A k \in 1..Len(copy_events) :
               \A i \in 1..copy_events[k].length :
                   copy_events[k].steps[2 * i - 1].value
                       = copy_events[k].steps[2 * i].value
        /\ \A o \in 1..(Len(rows) - 2) :
               rows[o].q_step = 1 => verify_step_value(rows, o)

\* A byte that is not zero has been copied.
C12_Witness ==
    \E k \in 1..Len(copy_events) :
        /\ copy_events[k].length >= 1
        /\ copy_events[k].steps[1].value # 0
        /\ copy_events[k].steps[2].value # 0

\* The accesses a range of steps of an event consumes.
RECURSIVE StepDeltaSum(_, _, _)
StepDeltaSum(e, from, to) ==
    IF from > to THEN 0
    ELSE (IF e.steps[from].tag \in {"Memory", "TxLog"}
             /\ ~e.steps[from].is_pad THEN 1 ELSE 0)
         + StepDeltaSum(e, from + 1, to)

\* C13: rwc_inc_left is the number of accesses the whole event consumes on
\* its first step, falls from each step to the next by the step's delta (1
\* for a Memory or TxLog step that is not padding, 0 for Bytecode,
\* TxCalldata and RlcAcc steps), and on the last step is that step's own
\* delta; the assigned rows satisfy the counter constraints of "verify row".
C13_RwcIncLeft ==
    LET rows == assign_block(copy_events)
    IN  /\ \A k \in 1..Len(copy_events) :
               LET e == copy_events[k]
                   n == Len(e.steps)
               IN  \A i \in 1..n :
                       /\ e.steps[i].rwc_inc_left = StepDeltaSum(e, i, n)
                       /\ e.steps[i].tag \in {"Bytecode", "TxCalldata", "RlcAcc"}
                              => StepDeltaSum(e, i, i) = 0
                       /\ i < n => e.steps[i + 1].rwc_inc_left
                                      = e.steps[i].rwc_inc_left
                                        - StepDeltaSum(e, i, i)
        /\ \A o \in 1..(Len(rows) - 2) :
               rows[o].q_enable = 1 => verify_row_counters(rows, o)

\* An event whose source is memory has a padded read among real ones, so
\* it consumes fewer accesses than it has steps.
C13_Witness ==
    \E k \in 1..Len(copy_events) :
        LET e == copy_events[k]
        IN  /\ e.src_type = "Memory"
            /\ e.length = 2
            /\ ~e.steps[1].is_pad
            /\ e.steps[3].is_pad
            /\ e.steps[1].rwc_inc_left = 3
            /\ e.steps[4].rwc_inc_left = 1

\* C14: a read step is padding exactly when its address is not below
\* src_addr_end of its event; a padded read has the value zero and raises
\* no error; a write step is never padding; the assigned rows satisfy the
\* padding constraints of "verify step".
C14_Padding ==
    LET rows == assign_block(copy_events)
    IN  /\ \A k \in 1..Len(copy_events) :
               LET e == copy_events[k]
               IN  \A i \in 1..Len(e.steps) :
                       LET st == e.steps[i]
                       IN  /\ st.rw = "READ" =>
                                  /\ st.is_pad <=> st.addr >= e.src_addr_end
                                  /\ st.is_pad => st.value = 0
                           /\ st.rw = "WRITE" => ~st.is_pad
        /\ \A n \in 1..Len(steps) :
               steps[n].exec_state \in CopyOpcodes => steps[n].error = "None"
        /\ \A o \in 1..(Len(rows) - 2) :
               rows[o].q_step = 1 => verify_step_pad(rows, o)

\* A read at src_addr_end itself is padded, after a read that is not.
C14_Witness ==
    \E k \in 1..Len(copy_events) :
        LET e == copy_events[k]
        IN  /\ e.length = 2
            /\ ~e.steps[1].is_pad
            /\ e.steps[3].is_pad
            /\ e.steps[3].addr = e.src_addr_end
            /\ e.steps[3].value = 0

\* The accesses a copy opcode's handler makes before the copy.
copy_pre_count(opcode) ==
    Len(copy_operands(opcode, 0, 0)) + (IF opcode = "RETURN" THEN 6 ELSE 0)

\* The step during which an event was extracted.
EventStep(e) ==
    CHOOSE n \in 1..Len(steps) :
        /\ steps[n].rwc <= e.steps[1].rwc
        /\ n < Len(steps) => steps[n + 1].rwc > e.steps[1].rwc

\* The lookups op i .. to of a step demand, one rw_lookup each.
RECURSIVE rw_lookups(_, _, _, _)
rw_lookups(cb, ops, i, to) ==
    IF i > to THEN cb
    ELSE rw_lookups(rw_lookup(cb, is_write(ops[i]), ops[i].target,
                              RwValues(ops[i])),
                    ops, i + 1, to)

\* The lookups of the gadget of a copy opcode: the accesses before the
\* copy, the copy lookup, the accesses after it.
CopyGadget(n, e) ==
    LET ops == StepOps(steps[n])
        p == copy_pre_count(steps[n].exec_state)
        total == total_rw_inc(e)
        cb1 == rw_lookups(ConstraintBuilder(steps[n]), ops, 1, p)
        r == copy_table_lookup(
                 cb1, e.src_id, e.src_type, e.dst_id, e.dst_type, e.src_addr,
                 e.src_addr_end,
                 IF e.dst_type = "TxLog"
                 THEN tx_log_addr(e.dst_addr, e.log_id) ELSE e.dst_addr,
                 e.length, total)
    IN  [cb |-> rw_lookups(r.cb, ops, p + total + 1, Len(ops)),
         copy_lookup |-> r.lookup]

C16_CalldataToMemory ==
    LET rows == assign_block(copy_events)
    IN  \A k \in 1..Len(copy_events) :
            LET e == copy_events[k]
            IN  (e.src_type = "TxCalldata" /\ e.dst_type = "Memory"
                 /\ e.length > 0) =>
                LET n == EventStep(e)
                    ops == StepOps(steps[n])
                    p == copy_pre_count("CALLDATACOPY")
                IN  /\ Len(e.steps) = 2 * e.length
                    /\ e.steps[1].rwc_inc_left = e.length
                    /\ \A i \in 1..e.length :
                           LET rd == e.steps[2 * i - 1]
                               wr == e.steps[2 * i]
                           IN  /\ rd.tag = "TxCalldata" /\ wr.tag = "Memory"
                               /\ wr.rwc = rd.rwc
                               /\ wr.rwc = steps[n].rwc + p + (i - 1)
                               /\ wr.rwc_inc_left = rd.rwc_inc_left
                               /\ ops[p + i].rwc = wr.rwc
                               /\ ops[p + i].target = "Memory"
                               /\ ops[p + i].rw = "WRITE"
                               /\ ops[p + i].address = wr.addr
                               /\ ops[p + i].value = wr.value
                    /\ Len(ops) = p + e.length
                    /\ \A j \in 1..p : ops[j].target = "Stack"
                    /\ \A o \in 1..(Len(rows) - 2) :
                           rows[o].tag = "TxCalldata" => rw_diff(rows[o]) = 0

\* Two bytes of calldata have been copied to the memory of the root call.
C16_Witness ==
    \E k \in 1..Len(copy_events) :
        LET e == copy_events[k]
        IN  /\ e.src_type = "TxCalldata"
            /\ e.dst_type = "Memory"
            /\ e.length = 2
            /\ Len(e.steps) = 4
            /\ rwc = steps[Len(steps)].rwc + 5

(***************************************************************************)
(* Padding of the RW table.                                                *)
(***************************************************************************)
\* The rows of a list that are operations, in order.
RealRows(rows) ==
    SelectSeq(rows, LAMBDA rw : rw.target \notin {"Start", "Padding"})

\* C17: when the padding helper returns for a target length that is not
\* zero, it returns exactly target-length rows: the Start row first, then
\* every real row in order, then Padding rows only.
C17_ExactlyTargetRows ==
    (padded.called /\ padded.ok /\ padded.target_len >= 1) =>
        LET real == RealRows(padded.input)
            out == padded.rows
        IN  /\ Len(out) = padded.target_len
            /\ Len(out) >= Len(real) + 1
            /\ out[1].target = "Start"
            /\ \A i \in 1..Len(real) : out[i + 1] = real[i]
            /\ \A i \in (Len(real) + 2)..Len(out) : out[i].target = "Padding"

\* C18 as stated: the padding helper signals an error whenever the target
\* length is smaller than the number of real rows.
C18_ErrorWheneverSmaller ==
    (padded.called /\ padded.target_len < Len(RealRows(padded.input)))
        => ~padded.ok

\* C18: the padding helper signals an error exactly when the target length
\* is not zero and is smaller than the number of real rows; with the target
\* length zero it returns no rows and no error.
C18_ErrorWhenSmallerAndNotZero ==
    padded.called =>
        /\ ~padded.ok <=> (/\ padded.target_len # 0
                           /\ padded.target_len < Len(RealRows(padded.input)))
        /\ (padded.target_len = 0 /\ Len(padded.input) > 0) =>
               (padded.ok /\ padded.rows = <<>>)

\* The helper has signalled an error for a target that is not zero.
C18_Witness ==
    /\ padded.called
    /\ ~padded.ok
    /\ padded.target_len >= 1
    /\ padded.target_len < Len(RealRows(padded.input))

\* C19: the operation store only grows: every operation stays where it is,
\* unchanged and with its RWC; padding leaves the store alone, and the rows
\* it returns hold every operation as it is in the store, the Start and
\* Padding rows around them.
C19_StoreOnlyGrows ==
    [][/\ \A t \in Targets :
              /\ Len(container'[t]) >= Len(container[t])
              /\ SubSeq(container'[t], 1, Len(container[t])) = container[t]
       /\ padded' # padded =>
              /\ container' = container
              /\ (padded'.ok
                  /\ padded'.target_len > Len(AllRows(container))) =>
                     LET rows == table_assignments(container, TRUE)
                     IN  /\ \A i \in 1..Len(rows) :
                                padded'.rows[i + 1] = rows[i]
                         /\ RealRows(padded'.rows) = rows]_vars

\* Two operations have been padded with the Start row and Padding rows.
C19_Witness ==
    /\ padded.called
    /\ padded.ok
    /\ padded.input = table_assignments(container, TRUE)
    /\ Len(padded.input) >= 2
    /\ padded.target_len >= Len(padded.input) + 2
    /\ padded.rows[1].target = "Start"
    /\ padded.rows[padded.target_len].target = "Padding"

(***************************************************************************)
(* CALLER.                                                                 *)
(***************************************************************************)
\* C20: the step of a CALLER holds exactly two operations with consecutive
\* RWCs: a call-context read of CallerAddress of the current call whose
\* value is the top of the stack of the next trace step, then a stack write
\* of the same value one slot below the stack pointer, which is address
\* 1023 when the stack was empty.
C20_CallerOps ==
    [][(/\ Len(steps') = Len(steps) + 1
        /\ steps'[Len(steps')].exec_state = "CALLER") =>
           LET s == steps'[Len(steps')]
               refs == s.bus_mapping_instance
               next_stack == call_stack'[Len(call_stack')].stack
               top == next_stack[Len(next_stack)]
               call == calls[CurCtx.index]
           IN  /\ Len(refs) = 2
               /\ LET read == container'[refs[1][1]][refs[1][2]]
                      write == container'[refs[2][1]][refs[2][2]]
                  IN  /\ read.rwc = rwc
                      /\ write.rwc = rwc + 1
                      /\ rwc' = rwc + 2
                      /\ read.target = "CallContext" /\ read.rw = "READ"
                      /\ read.field = "CallerAddress"
                      /\ read.id = call.call_id
                      /\ read.value = top
                      /\ write.target = "Stack" /\ write.rw = "WRITE"
                      /\ write.id = call.call_id
                      /\ write.value = top
                      /\ write.address
                             = STACK_CAPACITY - Len(CurCtx.stack) - 1
                      /\ Len(CurCtx.stack) = 0
                             => write.address = STACK_CAPACITY - 1]_vars

\* CALLER has run on an empty stack, writing address 1023, and again on the
\* stack it left, writing address 1022.
C20_Witness ==
    \E n, m \in 1..Len(steps) :
        /\ steps[n].exec_state = "CALLER"
        /\ steps[n].stack_size = 0
        /\ StepOps(steps[n])[2].address = 1023
        /\ StepOps(steps[n])[2].value = StepOps(steps[n])[1].value
        /\ steps[m].exec_state = "CALLER"
        /\ steps[m].stack_size = 1
        /\ StepOps(steps[m])[2].address = 1022

(***************************************************************************)
(* MLOAD.                                                                  *)
(***************************************************************************)
\* C21 as stated: the step of an MLOAD holds exactly 34 operations in the
\* order: the stack read of the address, the 32 memory reads of the bytes
\* at addr .. addr + 31 in ascending order, the stack write of the word.
C21_MloadWriteLast ==
    \A n \in 1..Len(steps) :
        steps[n].exec_state = "MLOAD" =>
            LET ops == StepOps(steps[n])
            IN  /\ Len(ops) = N_BYTES_WORD + 2
                /\ ops[1].target = "Stack" /\ ops[1].rw = "READ"
                /\ \A i \in 2..(N_BYTES_WORD + 1) :
                       /\ ops[i].target = "Memory" /\ ops[i].rw = "READ"
                       /\ ops[i].address = ops[1].value + i - 2
                /\ ops[N_BYTES_WORD + 2].target = "Stack"
                /\ ops[N_BYTES_WORD + 2].rw = "WRITE"

\* C21: the step of an MLOAD holds exactly 34 operations with consecutive
\* RWCs in the order: the stack read of the address at the top of the
\* stack, the stack write of the loaded word at the same stack address,
\* then the 32 memory reads of the word's bytes, most significant first, at
\* addr .. addr + 31 in ascending order.
C21_MloadOps ==
    \A n \in 1..Len(steps) :
        steps[n].exec_state = "MLOAD" =>
            LET s == steps[n]
                ops == StepOps(s)
                call_id == calls[s.call_index].call_id
            IN  /\ Len(ops) = N_BYTES_WORD + 2
                /\ \A i \in 1..Len(ops) : ops[i].rwc = s.rwc + i - 1
                /\ ops[1].target = "Stack" /\ ops[1].rw = "READ"
                /\ ops[1].id = call_id
                /\ ops[1].address = STACK_CAPACITY - s.stack_size
                /\ ops[2].target = "Stack" /\ ops[2].rw = "WRITE"
                /\ ops[2].id = call_id
                /\ ops[2].address = ops[1].address
                /\ \A i \in 3..Len(ops) :
                       /\ ops[i].target = "Memory" /\ ops[i].rw = "READ"
                       /\ ops[i].id = call_id
                       /\ ops[i].address = ops[1].value + i - 3
                       /\ ops[i].value = to_be_bytes(ops[2].value)[i - 2]

\* A word that is not zero has been loaded.
C21_Witness ==
    \E n \in 1..Len(steps) :
        /\ steps[n].exec_state = "MLOAD"
        /\ StepOps(steps[n])[1].value = 0
        /\ StepOps(steps[n])[2].value = 7
        /\ StepOps(steps[n])[N_BYTES_WORD + 2].value = 7

\* C22: an MLOAD of a word no byte of which was ever written completes
\* without an error, whether or not the trace reports the memory grown: the
\* step carries no error, the word written to the stack is 0 and so are
\* all 32 bytes read.
C22_UninitializedMemory ==
    \A n \in 1..Len(steps) :
        LET s == steps[n]
            ops == StepOps(s)
            addr == ops[1].value
            written == {op \in RowSet(container) :
                           /\ op.target = "Memory" /\ is_write(op)
                           /\ op.rwc < s.rwc
                           /\ op.address >= addr
                           /\ op.address < addr + N_BYTES_WORD}
        IN  (s.exec_state = "MLOAD" /\ written = {}) =>
                /\ s.error = "None"
                /\ Len(ops) = N_BYTES_WORD + 2
                /\ ops[2].target = "Stack" /\ ops[2].value = 0
                /\ \A i \in 3..Len(ops) :
                       ops[i].target = "Memory" /\ ops[i].value = 0

\* A word has been loaded from an address of a memory that was empty.
C22_Witness ==
    \E n \in 1..Len(steps) :
        /\ steps[n].exec_state = "MLOAD"
        /\ steps[n].memory_size = 0
        /\ StepOps(steps[n])[1].value = 7
        /\ Len(StepOps(steps[n])) = N_BYTES_WORD + 2
        /\ StepOps(steps[n])[2].value = 0

(***************************************************************************)
(* RETURN and REVERT.                                                      *)
(***************************************************************************)
\* C23: the step that follows a RETURN or REVERT step is the virtual EndTx
\* step when the returning call is the root call and is another step when
\* it is not; after the RETURN or REVERT of the root call nothing but EndTx
\* can follow.
C23_NextStateAfterReturn ==
    \A n \in 1..Len(steps) :
        steps[n].exec_state \in {"RETURN", "REVERT"} =>
            LET is_root == calls[steps[n].call_index].is_root
            IN  /\ n < Len(steps) =>
                       ReturnGadget_next_state(is_root,
                                               steps[n + 1].exec_state)
                /\ (n = Len(steps) /\ is_root) => phase = "endtx"
                /\ (n = Len(steps) /\ ~is_root) => phase = "running"

\* A call that is not the root has reverted and a step of its caller
\* followed; the root call has reverted and EndTx followed.
C23_Witness ==
    \E n, m \in 1..(Len(steps) - 1) :
        /\ steps[n].exec_state = "REVERT"
        /\ ~calls[steps[n].call_index].is_root
        /\ steps[n + 1].exec_state # "EndTx"
        /\ steps[m].exec_state = "REVERT"
        /\ calls[steps[m].call_index].is_root
        /\ steps[m + 1].exec_state = "EndTx"

\* The copy lookup the ReturnGadget demands for RETURN step n: the offset
\* cell holds the second stack read, the length cell the first, as
\* assign_exec_step fills them; the rest are the call-context reads.
ReturnCopyLookup(n) ==
    LET ops == StepOps(steps[n])
        cb == [ConstraintBuilder(steps[n]) EXCEPT !.rw_counter_offset = 8]
    IN  ReturnGadget_copy_table_lookup(cb, calls[steps[n].call_index].call_id,
                                       ops[6].value, ops[2].value,
                                       ops[1].value, ops[7].value,
                                       ops[8].value)

\* The RETURN steps of calls that are not the root with a range that is not
\* empty.
NonRootReturns ==
    {n \in 1..Len(steps) :
        /\ steps[n].exec_state = "RETURN"
        /\ ~calls[steps[n].call_index].is_root
        /\ StepOps(steps[n])[2].value > 0}

\* C24: the RETURN of a call that is not the root, with a range that is not
\* empty, copies min(return_data_length, length) bytes from the memory of
\* the callee at the offset of RETURN to the memory of the caller at
\* return_data_offset, and takes one read counter and one write counter for
\* each byte.
C24_ReturnCopiesMin ==
    \A n \in NonRootReturns :
        LET ops == StepOps(steps[n])
            l == ReturnCopyLookup(n)
            bytes == Min(ops[8].value, ops[2].value)
        IN  /\ l.src_tag = "Memory" /\ l.dst_tag = "Memory"
            /\ l.src_id = calls[steps[n].call_index].call_id
            /\ l.dst_id = ops[6].value
            /\ l.src_addr = ops[1].value
            /\ l.dst_addr = ops[7].value
            /\ l.length = bytes
            /\ l.rwc_inc = 2 * bytes

(***************************************************************************)
(* SELFBALANCE, NOT and the construction of a step.                        *)
(***************************************************************************)
\* The lookups of a gadget are the accesses of the step, one for one.
LookupsAreOps(lookups, ops) ==
    /\ Len(lookups) = Len(ops)
    /\ \A i \in 1..Len(ops) :
           /\ lookups[i].counter = ops[i].rwc
           /\ lookups[i].is_write = is_write(ops[i])
           /\ lookups[i].tag = ops[i].target
           /\ lookups[i].values = RwValues(ops[i])

\* The gadget of SELFBALANCE step n with the cells assign_exec_step fills:
\* the callee address of the call and the value of the third access.
SelfbalanceGadgetOf(n) ==
    LET call == calls[steps[n].call_index]
    IN  SelfbalanceGadget(StepConstraintBuilder(steps[n], call.call_id),
                          call.address, StepOps(steps[n])[3].value)

\* C25: a SELFBALANCE step has exactly three accesses with consecutive
\* counters, the read of the callee address from the call context, the
\* read of the balance of that account and the write of the balance to the
\* stack; the step after it has the counter advanced by three, the program
\* counter by one and the stack pointer lowered by one.
C25_Selfbalance ==
    \A n \in 1..Len(steps) :
        steps[n].exec_state = "SELFBALANCE" =>
            LET s == steps[n]
                ops == StepOps(s)
                call == calls[s.call_index]
            IN  /\ Len(ops) = 3
                /\ \A i \in 1..3 : ops[i].rwc = s.rwc + i - 1
                /\ ops[1].target = "CallContext" /\ ops[1].rw = "READ"
                /\ ops[1].field = "CalleeAddress"
                /\ ops[1].value = call.address
                /\ ops[2].target = "Account" /\ ops[2].rw = "READ"
                /\ ops[2].field = "Balance"
                /\ ops[2].address = call.address
                /\ ops[3].target = "Stack" /\ ops[3].rw = "WRITE"
                /\ ops[3].value = ops[2].value
                /\ ops[3].address = STACK_CAPACITY - s.stack_size - 1
                /\ LookupsAreOps(SelfbalanceGadgetOf(n).cb.lookups, ops)
                /\ n < Len(steps) =>
                       /\ require_step_state_transition(
                              SelfbalanceGadgetOf(n).step_state_transition,
                              step_state(s), step_state(steps[n + 1]))
                       /\ steps[n + 1].rwc = s.rwc + 3
                       /\ steps[n + 1].pc = s.pc + 1
                       /\ steps[n + 1].stack_size = s.stack_size + 1

\* A SELFBALANCE step with a step after it.
C25_Witness ==
    \E n \in 1..(Len(steps) - 1) :
        /\ steps[n].exec_state = "SELFBALANCE"
        /\ Len(steps[n].bus_mapping_instance) = 3
        /\ steps[n + 1].rwc = steps[n].rwc + 3

\* The gadget of NOT step n with the cells assign_exec_step fills: the
\* values of the two accesses.
NotGadgetOf(n) ==
    LET call == calls[steps[n].call_index]
        ops == StepOps(steps[n])
    IN  NotGadget(StepConstraintBuilder(steps[n], call.call_id),
                  ops[1].value, ops[2].value)

\* C26: a NOT step has exactly two accesses, the read of the operand from
\* the stack and the write of the result at the same stack address, with
\* two consecutive counters; the stack pointer does not move, and no
\* access is to the memory or to an account.
C26_Not ==
    \A n \in 1..Len(steps) :
        steps[n].exec_state = "NOT" =>
            LET s == steps[n]
                ops == StepOps(s)
            IN  /\ Len(ops) = 2
                /\ \A i \in 1..2 : ops[i].rwc = s.rwc + i - 1
                /\ \A i \in 1..2 : ops[i].target = "Stack"
                /\ ops[1].rw = "READ" /\ ops[2].rw = "WRITE"
                /\ ops[1].address = STACK_CAPACITY - s.stack_size
                /\ ops[2].address = ops[1].address
                /\ LookupsAreOps(NotGadgetOf(n).cb.lookups, ops)
                /\ NotGadgetOf(n).bitwise
                /\ n < Len(steps) =>
                       /\ require_step_state_transition(
                              NotGadgetOf(n).step_state_transition,
                              step_state(s), step_state(steps[n + 1]))
                       /\ steps[n + 1].rwc = s.rwc + 2
                       /\ steps[n + 1].stack_size = s.stack_size
                       /\ steps[n + 1].memory_size = s.memory_size

\* A NOT step of an operand that is not zero, with a step after it.
C26_Witness ==
    \E n \in 1..(Len(steps) - 1) :
        /\ steps[n].exec_state = "NOT"
        /\ StepOps(steps[n])[1].value = 7
        /\ StepOps(steps[n])[2].value = 248
        /\ steps[n + 1].stack_size = steps[n].stack_size

\* C27: the step a handler starts from has the program counter, the stack
\* size, the gas left and the gas cost of the trace step, the size of the
\* memory of the call context, the counter and the reversible write counter
\* of the moment it was made, the opcode as its execution state, no access
\* and no error.
C27_NewStep ==
    [][Len(steps') = Len(steps) + 1 =>
           LET s == steps'[Len(steps')]
               g == GethExecStep(s.exec_state,
                                 call_stack'[Len(call_stack')].memory)
               made == new_step_from_trace(g)
           IN  /\ made.exec_state = g.op
               /\ made.pc = g.pc
               /\ made.stack_size = Len(g.stack)
               /\ made.gas_left = g.gas
               /\ made.gas_cost = g.gas_cost
               /\ made.memory_size = Len(CurCtx.memory)
               /\ made.rwc = rwc
               /\ made.reversible_write_counter =
                      CurCtx.reversible_write_counter
               /\ made.bus_mapping_instance = <<>>
               /\ made.error = "None"
               /\ s = [made EXCEPT !.bus_mapping_instance =
                                       s.bus_mapping_instance]
    ]_vars

\* A step made after a reversible write and a growth of the memory: its
\* snapshots are not the initial ones.
C27_Witness ==
    \E n \in 1..Len(steps) :
        /\ steps[n].reversible_write_counter > 0
        /\ steps[n].memory_size > 0
        /\ steps[n].pc > 0
        /\ steps[n].gas_left < TxGas
        /\ steps[n].bus_mapping_instance # <<>>

(***************************************************************************)
(* Errors of the construction and errors of the execution.                 *)
(***************************************************************************)
\* The execution state the conversion gives an opcode that has one.
StateOfOpcode(op) ==
    IF is_dup(op) THEN "DUP"
    ELSE IF is_push(op) THEN "PUSH"
    ELSE IF is_swap(op) THEN "SWAP"
    ELSE ExecutionStateOf[op]

\* The build, the conversion and the assignment came this far without a
\* fatal error.
Built == phase \in {"running", "converted", "assigned"}
Converted == phase \in {"converted", "assigned"}

\* C28: a step of the trace whose name is not an opcode, whose opcode has
\* no execution state or whose execution state has no gadget is fatal: the
\* build, the conversion or the assignment that meets it ends with an error
\* or a panic; no step is left out and none is given to another handler.
C28_ClosedDispatch ==
    /\ \A i \in 1..Len(geth_trace) :
           geth_trace[i].name \notin OpcodeNames =>
               /\ phase = "OpcodeParsing"
               /\ i = Len(geth_trace)
               /\ Len(steps) = i - 1
               /\ witness = <<>>
    /\ (Built \/ phase = "panic") =>
           /\ Len(steps) = Len(geth_trace)
           /\ \A i \in 1..Len(steps) :
                  steps[i].exec_state = geth_trace[i].name
    /\ Converted =>
           /\ Len(witness) = Len(steps)
           /\ \A i \in 1..Len(steps) :
                  /\ HasExecutionState(steps[i].exec_state)
                  /\ witness[i].opcode = steps[i].exec_state
                  /\ witness[i].execution_state =
                         StateOfOpcode(steps[i].exec_state)
    /\ phase = "assigned" =>
           \A i \in 1..Len(witness) :
               /\ witness[i].execution_state \in GadgetStates
               /\ witness[i].gadget = witness[i].execution_state
    /\ phase = "panic" =>
           \/ \E i \in 1..Len(steps) :
                  \/ ~HasExecutionState(steps[i].exec_state)
                  \/ steps[i].error # "None"
           \/ \E i \in 1..Len(witness) :
                  witness[i].execution_state \notin GadgetStates

\* The conversion of a block with a CALLER step, which has no execution
\* state, has panicked; no step of the block has an error.
C28_Witness ==
    /\ phase = "panic"
    /\ witness = <<>>
    /\ \E i \in 1..Len(steps) : ~HasExecutionState(steps[i].exec_state)
    /\ \A i \in 1..Len(steps) : steps[i].error = "None"

\* The handler of a step of the trace returns an error.
HandlerFails(g) ==
    g.name = "CALLER" /\ g.next_stack_empty /\ g.error = "None"

\* C29: when the handler of a step returns an error the build ends with
\* that error: the step is the last one handled, it is not part of the
\* block, and no witness is made of the steps built before it.
C29_AllOrNothing ==
    /\ \A i \in 1..Len(geth_trace) :
           HandlerFails(geth_trace[i]) =>
               /\ phase = "InvalidStackPointer"
               /\ i = Len(geth_trace)
               /\ Len(steps) = i - 1
               /\ witness = <<>>
    /\ phase = "InvalidStackPointer" =>
           /\ geth_trace # <<>>
           /\ HandlerFails(geth_trace[Len(geth_trace)])

\* A build that failed after it had built a step.
C29_Witness ==
    /\ phase = "InvalidStackPointer"
    /\ Len(steps) >= 1
    /\ witness = <<>>

\* C30: a step the trace reports an execution error for is recorded with
\* the error, ends its call as reverted, and neither the build nor the
\* conversion of a block with such a step fails, when every opcode of the
\* trace has an execution state and a gadget.
C30_ErrorStepsConvert ==
    \A i \in 1..Len(geth_trace) :
        (/\ geth_trace[i].error # "None"
         /\ \A j \in 1..Len(geth_trace) :
                /\ geth_trace[j].name \in OpcodeNames
                /\ HasExecutionState(geth_trace[j].name)
                /\ StateOfOpcode(geth_trace[j].name) \in GadgetStates
                /\ ~HandlerFails(geth_trace[j])) =>
            /\ Len(steps) >= i
            /\ steps[i].error = geth_trace[i].error
            /\ oog_or_stack_error(steps[i])
            /\ frame_state[1] = "Reverted"
            /\ Built

C32_DisjointRefs ==
    [][/\ \A n, m \in 1..Len(steps') :
              \A i \in 1..Len(steps'[n].bus_mapping_instance) :
                 \A j \in 1..Len(steps'[m].bus_mapping_instance) :
                    steps'[n].bus_mapping_instance[i]
                            = steps'[m].bus_mapping_instance[j]
                        => (n = m /\ i = j)
       /\ \A n \in 1..Len(steps') :
              \A i \in 1..Len(steps'[n].bus_mapping_instance) :
                 LET ref == steps'[n].bus_mapping_instance[i]
                 IN  ref[2] \in 1..Len(container'[ref[1]])
       /\ Len(steps') >= Len(steps)
       /\ \A n \in 1..Len(steps) : steps'[n] = steps[n]]_vars

\* Two transactions were built, the first with a call that was reverted:
\* several steps hold references, one of them those of mirrored writes.
C32_Witness ==
    /\ Len(steps) >= 5
    /\ \E n \in 1..Len(steps) : Len(steps[n].bus_mapping_instance) >= 2
    /\ \E n, m \in 1..Len(steps) :
           /\ n # m
           /\ \E i \in 1..Len(steps[n].bus_mapping_instance) :
                  \E j \in 1..Len(steps[m].bus_mapping_instance) :
                     steps[n].bus_mapping_instance[i][1]
                         = steps[m].bus_mapping_instance[j][1]
    /\ \E n \in 1..Len(steps) :
           \E i \in 1..Len(steps[n].bus_mapping_instance) :
              /\ steps[n].bus_mapping_instance[i][1] = "Storage"
              /\ steps[n].exec_state \notin {"SSTORE", "SLOAD"}
\* The states that are enabled in a step: those whose cell is one.
EnabledStates(cells) ==
    {ExecutionStates[i] : i \in {j \in 1..Len(cells) : cells[j] = 1}}

\* The one state of a step.
StateOf(cells) == CHOOSE st \in EnabledStates(cells) : TRUE

\* C33: in an assignment the gate accepts, every step has exactly one state
\* enabled and every other cell zero, and for two steps in a row, the first
\* of which is not the row of q_step_last: EndTx is followed by BeginTx or
\* EndBlock only, EndBlock by EndBlock only, BeginTx comes after EndTx only,
\* EndTx after a halting state or BeginTx only, EndBlock after EndTx or
\* EndBlock only.
C33_StateTransitions ==
    phase = "accepted" =>
        /\ \A o \in 1..Len(witness) :
               /\ Cardinality(EnabledStates(witness[o].cells)) = 1
               /\ \A i \in 1..Len(ExecutionStates) :
                      witness[o].cells[i] \in {0, 1}
        /\ \A o \in 1..(Len(witness) - 1) :
               LET curr == StateOf(witness[o].cells)
                   next == StateOf(witness[o + 1].cells)
               IN  /\ curr = "EndTx" => next \in {"BeginTx", "EndBlock"}
                   /\ curr = "EndBlock" => next = "EndBlock"
                   /\ next = "BeginTx" => curr = "EndTx"
                   /\ next = "EndTx" => (halts(curr) \/ curr = "BeginTx")
                   /\ next = "EndBlock" => curr \in {"EndTx", "EndBlock"}

\* An accepted assignment of BeginTx, STOP and EndTx, in that order, with
\* q_step_last on its last step.
C33_Witness ==
    /\ phase = "accepted"
    /\ Len(witness) = 3
    /\ witness[1].cells = StateCells("BeginTx")
    /\ witness[2].cells = StateCells("STOP")
    /\ witness[3].cells = StateCells("EndTx")
    /\ witness[3].q_step_last

\* C34: in an assignment the gate accepts, the first step is BeginTx and
\* the last step is EndBlock.
C34_FirstBeginTxLastEndBlock ==
    phase = "accepted" =>
        /\ witness[1].cells = StateCells("BeginTx")
        /\ witness[Len(witness)].cells = StateCells("EndBlock")
\* The writes of call c are writes of frame f: c is f, or c returned with
\* success to a call whose writes are writes of f.
RECURSIVE WritesCountFor(_, _)
WritesCountFor(c, f) ==
    IF c = f THEN TRUE
    ELSE IF c = 0 THEN FALSE
    ELSE /\ frame_state[c] = "Returned"
         /\ WritesCountFor(calls[c].caller_id, f)

\* The reversible writes issued in frame f: its own and those of the calls
\* that returned to it.
FrameWrites(f) ==
    {m \in 1..Len(steps) :
        /\ steps[m].exec_state = "SSTORE"
        /\ WritesCountFor(steps[m].call_index, f)}

\* The reversible writes that the frame of step n issued before that step.
WritesBefore(n) == {m \in FrameWrites(steps[n].call_index) : m < n}

\* C35: the reversible_write_counter a step starts with is the number of
\* reversible writes issued in its frame before it, those of the calls that
\* returned to the frame included, so it never decreases within a frame;
\* the counter of an open frame is the number of all the reversible writes
\* issued in it; and for a reversible write, the counter of the
\* mirrored write is rw_counter_end_of_reversion minus the counter the step
\* started with, the counter being raised by one only after that: it is
\* then what the next step of the frame starts with, and the mirrored write
\* of a reverted frame is at the counter that was computed.  The EndTx step
\* comes after the last frame of its transaction and is a step of none.
C35_ReversibleWriteCounter ==
    /\ \A n \in {k \in 1..Len(steps) : steps[k].exec_state # "EndTx"} :
           LET s == steps[n]
               call == calls[s.call_index]
               r == rw_counter_of_reversion(reversion_info(call, s), 1)
           IN  /\ s.reversible_write_counter = Cardinality(WritesBefore(n))
               /\ \A m \in 1..(n - 1) :
                      steps[m].call_index = s.call_index =>
                          steps[m].reversible_write_counter
                              <= s.reversible_write_counter
               /\ s.exec_state = "SSTORE" =>
                      /\ r.counter = call.rw_counter_end_of_reversion
                                         - Cardinality(WritesBefore(n))
                      /\ r.info.reversible_write_counter
                             = Cardinality(WritesBefore(n)) + 1
                      /\ \A m \in (n + 1)..Len(steps) :
                             (/\ steps[m].call_index = s.call_index
                              /\ steps[m].exec_state # "EndTx"
                              /\ WritesBefore(m) = WritesBefore(n) \cup {n})
                                 => steps[m].reversible_write_counter
                                        = r.info.reversible_write_counter
                      /\ (~call.is_persistent
                              /\ call.rw_counter_end_of_reversion # 0) =>
                             \E row \in RowSet(container) :
                                 /\ row.rwc = r.counter
                                 /\ row.target = "Storage" /\ is_write(row)
                                 /\ RowKey(row)
                                        = RowKey(Op(s.bus_mapping_instance[1]))
                                 /\ row.value
                                        = Op(s.bus_mapping_instance[1])
                                              .value_prev
    /\ \A i \in 1..Len(call_stack) :
           call_stack[i].reversible_write_counter
               = Cardinality(FrameWrites(call_stack[i].index))

\* A frame that was reverted issued two reversible writes and a step after
\* them: the steps started with the counters 0, 1 and 2.
C35_Witness ==
    \E l, m, n \in 1..Len(steps) :
        /\ l < m /\ m < n
        /\ steps[l].call_index = steps[n].call_index
        /\ steps[m].call_index = steps[n].call_index
        /\ steps[l].exec_state = "SSTORE"
        /\ steps[m].exec_state = "SSTORE"
        /\ steps[l].reversible_write_counter = 0
        /\ steps[m].reversible_write_counter = 1
        /\ steps[n].reversible_write_counter = 2
        /\ ~calls[steps[n].call_index].is_persistent
        /\ calls[steps[n].call_index].rw_counter_end_of_reversion # 0
\* The lookups of the stack among the first k lookups of a gadget, reads or
\* writes.
StackLookups(lookups, k, isw) ==
    {i \in 1..k : lookups[i].tag = "Stack" /\ lookups[i].is_write = isw}

\* The gadget of step n, a NOT or a SELFBALANCE step.
GadgetOf(n) ==
    IF steps[n].exec_state = "NOT" THEN NotGadgetOf(n)
    ELSE SelfbalanceGadgetOf(n)

\* C36: in the gadget of a NOT or a SELFBALANCE step, a pop reads the slot
\* at the stack pointer plus the pops less the pushes made before it, a push
\* writes the slot one below that; the offset after the p pops and q pushes
\* of the gadget is p - q, which is the delta of the stack pointer the
\* gadget declares; p and q are the reads and the writes of the stack the
\* step has (one and one for NOT, none and one for SELFBALANCE), and the
\* step after it has the stack pointer moved by p - q.
C36_StackPointerArithmetic ==
    \A n \in 1..Len(steps) :
        steps[n].exec_state \in {"NOT", "SELFBALANCE"} =>
            LET s == steps[n]
                g == GadgetOf(n)
                lookups == g.cb.lookups
                ops == StepOps(s)
                p == Cardinality(StackLookups(lookups, Len(lookups), FALSE))
                q == Cardinality(StackLookups(lookups, Len(lookups), TRUE))
                before(i) ==
                    Cardinality(StackLookups(lookups, i - 1, FALSE))
                        - Cardinality(StackLookups(lookups, i - 1, TRUE))
            IN  /\ \A i \in 1..Len(lookups) :
                       lookups[i].tag = "Stack" =>
                           lookups[i].values.address =
                               (STACK_CAPACITY - s.stack_size) + before(i)
                                   - Bit(lookups[i].is_write)
                /\ g.cb.stack_pointer_offset = p - q
                /\ g.step_state_transition.stack_pointer
                       = Transition_Delta(p - q)
                /\ p = Cardinality({i \in 1..Len(ops) :
                                       /\ ops[i].target = "Stack"
                                       /\ ops[i].rw = "READ"})
                /\ q = Cardinality({i \in 1..Len(ops) :
                                       /\ ops[i].target = "Stack"
                                       /\ ops[i].rw = "WRITE"})
                /\ <<p, q>> = IF s.exec_state = "NOT" THEN <<1, 1>>
                              ELSE <<0, 1>>
                /\ n < Len(steps) =>
                       step_state(steps[n + 1]).stack_pointer
                           = step_state(s).stack_pointer + (p - q)

\* A NOT step and a SELFBALANCE step, each with a step after it.
C36_Witness ==
    /\ \E n \in 1..(Len(steps) - 1) :
           /\ steps[n].exec_state = "NOT"
           /\ steps[n + 1].stack_size = steps[n].stack_size
    /\ \E n \in 1..(Len(steps) - 1) :
           /\ steps[n].exec_state = "SELFBALANCE"
           /\ steps[n + 1].stack_size = steps[n].stack_size + 1
\* ReturnGadget::assign_exec_step for RETURN step n: the offset cell takes
\* the value of the second access of the step and the length cell that of
\* the first ([1, 0] of rw_indices), the other cells those of the call.  The
\* stack of a copy step holds its two operands.
ReturnGadgetOf(n) ==
    LET s == steps[n]
        call == calls[s.call_index]
        ops == StepOps(s)
        caller_id == IF call.is_root THEN 0
                     ELSE calls[call.caller_id].call_id
    IN  ReturnGadget([StepConstraintBuilder(s, call.call_id) EXCEPT
                         !.stack_pointer = STACK_CAPACITY - 2],
                     ops[2].value, ops[1].value,
                     [call EXCEPT !.caller_id = caller_id],
                     ReturnDataOffset, ReturnDataLength)

\* C37: a RETURN step takes eight counters before any copy: the read of the
\* top of the stack, which is the offset of the returned range, the read of
\* the slot above it, which is the length, and the reads of the call-context
\* fields IsRoot, IsCreate, IsSuccess, CallerId, ReturnDataOffset and
\* ReturnDataLength, in that order; the gadget's lookups are these eight
\* accesses, its range has the offset of the first and the length of the
\* second, the copy starts at the counter of the step plus eight, and the
\* restoring of the caller's context starts at the offset 8.
C37_ReturnAccessOrder ==
    \A n \in 1..Len(steps) :
        steps[n].exec_state = "RETURN" =>
            LET s == steps[n]
                ops == StepOps(s)
                g == ReturnGadgetOf(n)
                fields == <<"IsRoot", "IsCreate", "IsSuccess", "CallerId",
                            "ReturnDataOffset", "ReturnDataLength">>
            IN  /\ Len(ops) >= 8
                /\ \A i \in 1..8 : ops[i].rwc = s.rwc + i - 1
                /\ \A i \in 1..2 :
                       /\ ops[i].target = "Stack" /\ ops[i].rw = "READ"
                       /\ ops[i].address = STACK_CAPACITY - 2 + (i - 1)
                /\ \A i \in 1..6 :
                       /\ ops[2 + i].target = "CallContext"
                       /\ ops[2 + i].rw = "READ"
                       /\ ops[2 + i].field = fields[i]
                /\ LookupsAreOps(SubSeq(g.cb.lookups, 1, 8),
                                 SubSeq(ops, 1, 8))
                /\ g.range.offset = ops[1].value
                /\ g.range.length = ops[2].value
                /\ \A i \in 1..Len(g.copy_lookup) :
                       g.copy_lookup[i].rw_counter = s.rwc + 8
                /\ \A i \in 1..Len(g.restore_context) :
                       g.restore_context[i].rw_offset = 8
                /\ \A i \in 9..Len(ops) : ops[i].target = "Memory"
(***************************************************************************)
(* The gadget of the error ErrorWriteProtection                            *)
(* (execution/error_write_protection.rs): a step of a call with a stack    *)
(* of three words is assigned to the gadget, and the assignment is         *)
(* accepted when every constraint of the gadget is zero and the RW table   *)
(* has every row the gadget demands.                                       *)
(***************************************************************************)
\* OpcodeId::as_u8 of the opcodes of this part of the model.
as_u8(op) ==
    CASE op = "ADD" -> 1
      [] op = "SLOAD" -> 84
      [] op = "SSTORE" -> 85
      [] op = "TSTORE" -> 93
      [] op = "LOG0" -> 160
      [] op = "LOG1" -> 161
      [] op = "LOG2" -> 162
      [] op = "LOG3" -> 163
      [] op = "LOG4" -> 164
      [] op = "CREATE" -> 240
      [] op = "CALL" -> 241
      [] op = "CREATE2" -> 245
      [] op = "STATICCALL" -> 250
      [] op = "SELFDESTRUCT" -> 255

\* A product of field elements up to a unit: zero when a factor is zero,
\* one when no factor is, as in a field.
RECURSIVE product(_, _)
product(factors, n) ==
    IF n = 0 THEN 1
    ELSE IF factors[n] = 0 THEN 0 ELSE product(factors, n - 1)

\* require_in_set: the product of the differences of the value and the
\* items of the set.
require_in_set(value, set) ==
    product([i \in 1..Len(set) |-> value - set[i]], Len(set))

\* The opcodes the gadget names.
WriteProtectionOpcodes ==
    <<"CALL", "SSTORE", "TSTORE", "CREATE", "CREATE2", "SELFDESTRUCT",
      "LOG0", "LOG1", "LOG2", "LOG3", "LOG4">>

\* The gadget without the constraint on the value of a CALL.
ErrorWriteProtectionGadget_any_value(cb, opcode, gas, code_address, value, is_root) ==
    LET is_call == Bit(opcode = as_u8("CALL"))
        cb3 == IF is_call = 1
               THEN stack_pop(stack_pop(stack_pop(cb, gas), code_address),
                              value)
               ELSE cb
    IN  [cb |-> call_context_lookup(cb3, "IsStatic", 1),
         constraints |->
             <<require_in_set(opcode,
                              [i \in 1..Len(WriteProtectionOpcodes) |->
                                  as_u8(WriteProtectionOpcodes[i])]),
               Bit(is_root)>>]

\* ErrorWriteProtectionGadget::configure for the values of its cells: the
\* opcode is in the set, a CALL pops gas, code address and value and its
\* value is not zero, the call context has IsStatic one, and the step is not
\* in the root call.
ErrorWriteProtectionGadget(cb, opcode, gas, code_address, value, is_root) ==
    LET is_call == Bit(opcode = as_u8("CALL"))
        is_value_zero == Bit(value = 0)
        cb3 == IF is_call = 1
               THEN stack_pop(stack_pop(stack_pop(cb, gas), code_address),
                              value)
               ELSE cb
    IN  [cb |-> call_context_lookup(cb3, "IsStatic", 1),
         constraints |->
             <<require_in_set(opcode,
                              [i \in 1..Len(WriteProtectionOpcodes) |->
                                  as_u8(WriteProtectionOpcodes[i])]),
               is_call * is_value_zero,
               Bit(is_root)>>]

\* The opcodes a step is tried with: those of the gadget and three others.
ProtectOpcodes ==
    {WriteProtectionOpcodes[i] : i \in 1..Len(WriteProtectionOpcodes)}
        \cup {"ADD", "SLOAD", "STATICCALL"}

\* The rows of the RW table for a step: a CALL reads the three words on top
\* of the stack, from the top, and every opcode reads the IsStatic field of
\* its call.
protect_rws(opcode, call, stack) ==
    LET n == Len(stack)
        pops == IF opcode = "CALL"
                THEN [i \in 1..3 |->
                         [StackOp(call.call_id, STACK_CAPACITY - n + i - 1,
                                  stack[n + 1 - i]) EXCEPT !.rwc = i]]
                ELSE <<>>
    IN  [[t \in Targets |-> <<>>] EXCEPT
            !["Stack"] = pops,
            !["CallContext"] =
                <<[CallContextOp(call.call_id, "IsStatic",
                                 Bit(call.is_static))
                      EXCEPT !.rwc = Len(pops) + 1]>>]

\* ErrorWriteProtectionGadget::assign_exec_step: the cell of the opcode
\* takes the opcode of the step, and the cells gas, code_address and value
\* the first three accesses of a CALL and zero for any other opcode.
AssignWriteProtection(opcode, is_root, is_static, stack) ==
    /\ phase = "assigning"
    /\ witness = <<>>
    /\ LET call == [call_id |-> 1, is_root |-> is_root,
                    is_static |-> is_static]
           rws == protect_rws(opcode, call, stack)
           is_call == opcode = "CALL"
       IN  /\ calls' = <<call>>
           /\ call_stack' = <<[stack |-> stack]>>
           /\ steps' = <<[exec_state |-> "ErrorWriteProtection",
                          opcode |-> opcode, rwc |-> 1,
                          stack_size |-> Len(stack), call_index |-> 1]>>
           /\ container' = rws
           /\ witness' =
                  <<[opcode |-> as_u8(opcode),
                     gas |-> IF is_call THEN rws["Stack"][1].value ELSE 0,
                     code_address |->
                         IF is_call THEN rws["Stack"][2].value ELSE 0,
                     value |-> IF is_call THEN rws["Stack"][3].value ELSE 0]>>
    /\ phase' = "assigned"
    /\ UNCHANGED <<rwc, frame_state, reversion_groups, sdb, committed, tx_id,
                   last_ref, copy_events, padded, geth_trace>>

\* The verification of the step: the constraints of the gadget are zero
\* and the table has the rows of its lookups.
VerifyWriteProtection ==
    /\ phase = "assigned"
    /\ LET g == ErrorWriteProtectionGadget(
                    StepConstraintBuilder(steps[1], calls[1].call_id),
                    witness[1].opcode, witness[1].gas,
                    witness[1].code_address, witness[1].value,
                    calls[1].is_root)
       IN  phase' = IF /\ \A i \in 1..Len(g.constraints) :
                             g.constraints[i] = 0
                       /\ \A i \in 1..Len(g.cb.lookups) :
                             LookupHolds(container, g.cb.lookups[i])
                    THEN "accepted" ELSE "rejected"
    /\ UNCHANGED <<rwc, container, steps, calls, frame_state, call_stack,
                   reversion_groups, sdb, committed, tx_id, last_ref,
                   copy_events, padded, geth_trace, witness>>

NextProtect ==
    \/ \E opcode \in ProtectOpcodes, is_root \in BOOLEAN,
          is_static \in BOOLEAN, stack \in [1..3 -> Vals] :
           AssignWriteProtection(opcode, is_root, is_static, stack)
    \/ VerifyWriteProtection

SpecProtect == InitExec /\ [][NextProtect]_vars

\* C38: a step the gadget of ErrorWriteProtection accepts is in a call that
\* is not the root and whose call-context field IsStatic is one, its opcode
\* is CALL, SSTORE, TSTORE, CREATE, CREATE2, SELFDESTRUCT or one of LOG0 to
\* LOG4, and when the opcode is CALL the third word from the top of the
\* stack, the value of the call, is not zero.
C38_WriteProtection ==
    phase = "accepted" =>
        LET stack == call_stack[1].stack
        IN  /\ ~calls[1].is_root
            /\ calls[1].is_static
            /\ steps[1].opcode \in
                   {"CALL", "SSTORE", "TSTORE", "CREATE", "CREATE2",
                    "SELFDESTRUCT", "LOG0", "LOG1", "LOG2", "LOG3", "LOG4"}
            /\ (steps[1].opcode = "CALL" => stack[Len(stack) - 2] # 0)

\* An accepted step of a CALL with a value that is not zero and a gas and
\* an address that are.
C38_Witness ==
    /\ phase = "accepted"
    /\ steps[1].exec_state = "ErrorWriteProtection"
    /\ steps[1].opcode = "CALL"
    /\ call_stack[1].stack = <<1, 0, 0>>
(***************************************************************************)
(* Chunks: the rows of the RW table and the steps of the block that fall   *)
(* in the range of counters of one chunk (witness/rw.rs, evm_circuit.rs).  *)
(***************************************************************************)
\* RwMap::take_rw_counter_range: the rows whose counter is in the range.
take_rw_counter_range(c, start_rwc, end_rwc) ==
    [t \in Targets |->
        SelectSeq(c[t], LAMBDA r : r.rwc >= start_rwc /\ r.rwc < end_rwc)]

\* The ranges of counters a chunk can have over the rows pushed so far.
ChunkRanges ==
    {r \in (1..(MaxPushes + 1)) \X (1..(MaxPushes + 1)) : r[1] < r[2]}

\* Chunk::prev_chunk_last_chrono_rw: the last row before the range, and
\* the empty option for the first chunk.
prev_chunk_last_chrono_rw(c, start_rwc) ==
    LET before == {r \in RowSet(c) : r.rwc = start_rwc - 1}
    IN  IF before = {} THEN <<>> ELSE <<CHOOSE r \in before : TRUE>>

\* The padding of the rows of a chunk: the rows of the range in
\* chronological order are handed to table_assignments_padding with the
\* last row of the chunk before.
PadChunk(start_rwc, end_rwc, max_rws) ==
    /\ padded' = table_assignments_padding(
                     table_assignments(
                         take_rw_counter_range(container, start_rwc, end_rwc),
                         TRUE),
                     max_rws, prev_chunk_last_chrono_rw(container, start_rwc))
    /\ UNCHANGED <<rwc, container, steps, calls, frame_state, call_stack,
                   reversion_groups, sdb, committed, tx_id, phase, last_ref,
                   copy_events, geth_trace, witness>>

NextChunk ==
    \/ \E in \in PushInputs : PushOp(in[1], in[2])
    \/ \E r \in ChunkRanges, max_rws \in 0..(MaxPushes + 2) :
           PadChunk(r[1], r[2], max_rws)

SpecChunk == InitPush /\ [][NextChunk]_vars

\* EvmCircuit::get_min_num_rows_required over the first n steps of the
\* block: the heights of the steps the condition takes, and two rows more.
\* Every execution state of the model has the height step_height.
RECURSIVE min_num_rows(_, _, _, _, _)
min_num_rows(ss, n, initial_rwc, end_rwc, step_height) ==
    IF n = 0 THEN 0
    ELSE min_num_rows(ss, n - 1, initial_rwc, end_rwc, step_height)
             + (IF initial_rwc <= ss[n].rwc \/ ss[n].rwc < end_rwc
                THEN step_height ELSE 0)

get_min_num_rows_required(ss, initial_rwc, end_rwc, step_height) ==
    min_num_rows(ss, Len(ss), initial_rwc, end_rwc, step_height) + 2

\* The number of rows is computed for a chunk of the block built so far.
MinRows(initial_rwc, end_rwc, step_height) ==
    /\ witness' = <<[initial_rwc |-> initial_rwc, end_rwc |-> end_rwc,
                     step_height |-> step_height, steps |-> steps,
                     num_rows |-> get_min_num_rows_required(
                                      steps, initial_rwc, end_rwc,
                                      step_height)]>>
    /\ UNCHANGED <<rwc, container, steps, calls, frame_state, call_stack,
                   reversion_groups, sdb, committed, tx_id, phase, last_ref,
                   copy_events, padded, geth_trace>>

NextRows ==
    \/ \E in \in PushInputs : PushOp(in[1], in[2])
    \/ PushNewStep
    \/ \E r \in ChunkRanges, step_height \in 1..MaxHeight :
           MinRows(r[1], r[2], step_height)

SpecRows == InitPush /\ [][NextRows]_vars

\* The heights of the first n steps whose counter is in the range.
RECURSIVE HeightsInRange(_, _, _, _, _)
HeightsInRange(ss, n, initial_rwc, end_rwc, step_height) ==
    IF n = 0 THEN 0
    ELSE HeightsInRange(ss, n - 1, initial_rwc, end_rwc, step_height)
             + (IF initial_rwc <= ss[n].rwc /\ ss[n].rwc < end_rwc
                THEN step_height ELSE 0)

\* C39: the minimum number of rows of a chunk is the sum of the heights of
\* the steps whose counter is at least initial_rwc and less than end_rwc,
\* plus two; a step outside the range adds nothing.
C39_MinRowsOfChunk ==
    \A i \in 1..Len(witness) :
        LET w == witness[i]
        IN  w.num_rows = HeightsInRange(w.steps, Len(w.steps), w.initial_rwc,
                                        w.end_rwc, w.step_height) + 2

\* C40: in the rows the padding returns, the Start row at the head aside,
\* no two rows have the same counter, whatever the range of the chunk.
C40_PaddedCountersDistinct ==
    (padded.called /\ padded.ok) =>
        \A i, j \in 2..Len(padded.rows) :
            i # j => padded.rows[i].rwc # padded.rows[j].rwc
====
